---- MODULE Spec2Model ----
(***************************************************************************)
(* Model of the candidate/job matching engine of recruit-assist-api        *)
(* (app/services/matching_service.py) and of the rows it reads and writes. *)
(*                                                                         *)
(* Conventions                                                             *)
(*   - a Python str is a sequence of one-character strings;                *)
(*   - None is NoneStr for an Optional[str] and NoneNum for an optional    *)
(*     number; a value of a wrong type (an int where a str is expected, a  *)
(*     str where a dict is expected) is NonStr / a record with             *)
(*     isdict = FALSE;                                                     *)
(*   - a float is an exact fraction [n, d] in lowest terms (binary         *)
(*     rounding of floats is not modelled);                                *)
(*   - a call that raises returns a record with raised = TRUE.             *)
(***************************************************************************)
EXTENDS Integers, Sequences, FiniteSets, TLC

\* With(x, F) is F(x), the argument x being evaluated once however often F
\* uses it: the binding of a Python local variable to a value
With(x, F(_)) == CHOOSE r \in {F(v) : v \in {x}} : TRUE

\* ------------------------------------------------------------------------
\* Exact arithmetic on fractions
\* ------------------------------------------------------------------------

Abs(x) == IF x < 0 THEN 0 - x ELSE x

RECURSIVE GCD(_, _)
GCD(a, b) == IF b = 0 THEN a ELSE With(a % b, LAMBDA r : GCD(b, r))

Frac(n, d) ==
    With(<<n, d>>, LAMBDA p :
        With(<<IF p[2] < 0 THEN 0 - 1 ELSE 1, GCD(Abs(p[1]), Abs(p[2]))>>, LAMBDA sg :
            [n |-> (sg[1] * p[1]) \div sg[2], d |-> (sg[1] * p[2]) \div sg[2]]))

FInt(k) == [n |-> k, d |-> 1]
FZero == FInt(0)
FOne == FInt(1)
FHalf == Frac(1, 2)

FAdd(x, y) ==
    With(<<x, y>>, LAMBDA p : Frac(p[1].n * p[2].d + p[2].n * p[1].d, p[1].d * p[2].d))
FNeg(x) == With(x, LAMBDA a : [n |-> 0 - a.n, d |-> a.d])
FSub(x, y) == FAdd(x, FNeg(y))
FMul(x, y) == With(<<x, y>>, LAMBDA p : Frac(p[1].n * p[2].n, p[1].d * p[2].d))
FDiv(x, y) == With(<<x, y>>, LAMBDA p : Frac(p[1].n * p[2].d, p[1].d * p[2].n))
FLe(x, y) == With(<<x, y>>, LAMBDA p : p[1].n * p[2].d <= p[2].n * p[1].d)
FLt(x, y) == With(<<x, y>>, LAMBDA p : p[1].n * p[2].d < p[2].n * p[1].d)
\* a comparison that leaves out equality
FGe_strict(x, y) == FLt(y, x)
FGe(x, y) == FLe(y, x)
FGt(x, y) == FLt(y, x)
FMin(x, y) == With(<<x, y>>, LAMBDA p : IF FLe(p[1], p[2]) THEN p[1] ELSE p[2])
FMax(x, y) == With(<<x, y>>, LAMBDA p : IF FLe(p[1], p[2]) THEN p[2] ELSE p[1])
FInUnit(x) == With(x, LAMBDA a : FLe(FZero, a) /\ FLe(a, FOne))

RECURSIVE Pow10(_)
Pow10(k) == IF k = 0 THEN 1 ELSE 10 * Pow10(k - 1)

\* Python round(x, ndigits): to the nearest multiple of 10^-ndigits, a tie to
\* the even one.
round(x, ndigits) ==
    With(<<x, Pow10(ndigits)>>, LAMBDA xp :
        LET d == xp[1].d
            p == xp[2]
            q == (xp[1].n * p) \div d
            r == (xp[1].n * p) % d
            up == \/ 2 * r > d
                  \/ (2 * r = d /\ q % 2 = 1)
        IN  Frac(IF up THEN q + 1 ELSE q, p))

\* ------------------------------------------------------------------------
\* Python strings
\* ------------------------------------------------------------------------

NoneStr == <<"None">>
NonStr == <<"#int">>
NoneNum == 0 - 1

UpperChars == <<"A", "B", "C", "D", "E", "F", "G", "H", "I", "J", "K", "L", "M",
                "N", "O", "P", "Q", "R", "S", "T", "U", "V", "W", "X", "Y", "Z">>
LowerChars == <<"a", "b", "c", "d", "e", "f", "g", "h", "i", "j", "k", "l", "m",
                "n", "o", "p", "q", "r", "s", "t", "u", "v", "w", "x", "y", "z">>
Whitespace == {" ", "\t", "\n"}

CharIndex(c, table) ==
    IF \E i \in 1..Len(table) : table[i] = c
    THEN CHOOSE i \in 1..Len(table) : table[i] = c
    ELSE 0

LowerChar(c) == LET i == CharIndex(c, UpperChars)
                IN  IF i = 0 THEN c ELSE LowerChars[i]
UpperChar(c) == LET i == CharIndex(c, LowerChars)
                IN  IF i = 0 THEN c ELSE UpperChars[i]

\* str.lower(), str.upper()
lower(s) == [i \in 1..Len(s) |-> LowerChar(s[i])]
upper(s) == [i \in 1..Len(s) |-> UpperChar(s[i])]

\* str.strip(): leading and trailing whitespace removed
strip(s) ==
    LET keep == {i \in 1..Len(s) : s[i] \notin Whitespace}
    IN  IF keep = {} THEN <<>>
        ELSE LET lo == CHOOSE i \in keep : \A j \in keep : i <= j
                 hi == CHOOSE i \in keep : \A j \in keep : j <= i
             IN  SubSeq(s, lo, hi)

StartsAt(sub, s, i) ==
    /\ i + Len(sub) - 1 <= Len(s)
    /\ \A k \in 1..Len(sub) : s[i + k - 1] = sub[k]

\* `sub in s`; the empty string is in every string
Contains(sub, s) == \E i \in 1..(Len(s) + 1) : StartsAt(sub, s, i)

\* str.replace(old, new): every non-overlapping occurrence, left to right
RECURSIVE ReplaceFrom(_, _, _, _)
ReplaceFrom(s, old, new, i) ==
    IF i > Len(s) THEN <<>>
    ELSE IF StartsAt(old, s, i)
         THEN new \o ReplaceFrom(s, old, new, i + Len(old))
         ELSE <<s[i]>> \o ReplaceFrom(s, old, new, i + 1)
replace(s, old, new) == ReplaceFrom(s, old, new, 1)

\* str.split(): the maximal runs of non-whitespace characters, in order
RECURSIVE SplitFrom(_, _, _)
SplitFrom(s, i, cur) ==
    IF i > Len(s) THEN (IF cur = <<>> THEN <<>> ELSE <<cur>>)
    ELSE IF s[i] \in Whitespace
         THEN (IF cur = <<>> THEN <<>> ELSE <<cur>>) \o SplitFrom(s, i + 1, <<>>)
         ELSE SplitFrom(s, i + 1, Append(cur, s[i]))
split(s) == SplitFrom(s, 1, <<>>)

\* str.split(sep) for a one-character separator: empty fields are kept
RECURSIVE SplitOnFrom(_, _, _, _)
SplitOnFrom(s, sep, i, cur) ==
    IF i > Len(s) THEN <<cur>>
    ELSE IF s[i] = sep
         THEN <<cur>> \o SplitOnFrom(s, sep, i + 1, <<>>)
         ELSE SplitOnFrom(s, sep, i + 1, Append(cur, s[i]))
split_on(s, sep) == SplitOnFrom(s, sep, 1, <<>>)

Range(f) == {f[i] : i \in DOMAIN f}

\* The first index of seq at which P holds, 0 when there is none
FirstIndex(seq, P(_)) ==
    IF \E i \in 1..Len(seq) : P(seq[i])
    THEN CHOOSE i \in 1..Len(seq) : P(seq[i]) /\ \A j \in 1..(i - 1) : ~P(seq[j])
    ELSE 0

Digits == <<"0", "1", "2", "3", "4", "5", "6", "7", "8", "9">>
IsDigits(s) == Len(s) > 0 /\ \A i \in 1..Len(s) : CharIndex(s[i], Digits) > 0

RECURSIVE DigitsValue(_)
DigitsValue(s) ==
    IF s = <<>> THEN 0
    ELSE 10 * DigitsValue(SubSeq(s, 1, Len(s) - 1)) + (CharIndex(s[Len(s)], Digits) - 1)

\* int(s): surrounding whitespace is ignored; anything but decimal digits
\* raises ValueError (ok = FALSE)
int(s) ==
    With(strip(s), LAMBDA t :
        IF IsDigits(t) THEN [ok |-> TRUE, value |-> DigitsValue(t)]
        ELSE [ok |-> FALSE, value |-> 0])

\* ------------------------------------------------------------------------
\* matching_service.py: skill normalisation and matching
\* ------------------------------------------------------------------------

\* the alias table, in the dict's insertion order
aliases ==
    << [alias |-> <<"n", "o", "d", "e">>,
        canonical |-> <<"n", "o", "d", "e", ".", "j", "s">>],
       [alias |-> <<"n", "o", "d", "e", "j", "s">>,
        canonical |-> <<"n", "o", "d", "e", ".", "j", "s">>],
       [alias |-> <<"j", "s">>,
        canonical |-> <<"j", "a", "v", "a", "s", "c", "r", "i", "p", "t">>],
       [alias |-> <<"r", "e", "a", "c", "t", "j", "s">>,
        canonical |-> <<"r", "e", "a", "c", "t">>],
       [alias |-> <<"v", "u", "e", "j", "s">>,
        canonical |-> <<"v", "u", "e">>],
       [alias |-> <<"p", "o", "s", "t", "g", "r", "e", "s">>,
        canonical |-> <<"p", "o", "s", "t", "g", "r", "e", "s", "q", "l">>],
       [alias |-> <<"a", "w", "s">>,
        canonical |-> <<"a", "m", "a", "z", "o", "n", " ", "w", "e", "b", " ",
                        "s", "e", "r", "v", "i", "c", "e", "s">>] >>

\* the loop over aliases.items(): each pair is applied to the text the
\* earlier pairs produced
RECURSIVE ApplyAliases(_, _)
ApplyAliases(normalized, k) ==
    IF k > Len(aliases) THEN normalized
    ELSE With(IF Contains(aliases[k].alias, normalized)
              THEN replace(normalized, aliases[k].alias, aliases[k].canonical)
              ELSE normalized,
              LAMBDA replaced : ApplyAliases(replaced, k + 1))

_normalize_skill_name(skill_name) ==
    With(strip(lower(skill_name)), LAMBDA normalized : ApplyAliases(normalized, 1))

\* an exact match that asks for equal names
ExactMatch_equal(req_lower, name) == _normalize_skill_name(name) = req_lower

\* req_lower in skill_lower or skill_lower in req_lower
ExactMatch(req_lower, name) ==
    With(_normalize_skill_name(name), LAMBDA n :
        Contains(req_lower, n) \/ Contains(n, req_lower))

\* overlap and len(overlap) >= len(req_tokens) * 0.5
TokenMatch(req_tokens, name) ==
    With(req_tokens \cap Range(split(_normalize_skill_name(name))), LAMBDA overlap :
        overlap # {} /\ 2 * Cardinality(overlap) >= Cardinality(req_tokens))

\* (match_score, evidence): the skills are scanned for an exact match, then
\* for a partial one; only then is each technology tried, exact before partial
_check_skill_match(requirement, candidate_skills, candidate_technologies) ==
    With(_normalize_skill_name(requirement), LAMBDA req_lower :
    With(Range(split(req_lower)), LAMBDA req_tokens :
        LET IsExact(name) == ExactMatch(req_lower, name)
            IsPartial(name) == TokenMatch(req_tokens, name)
            IsEither(name) == IsExact(name) \/ IsPartial(name)
            se == FirstIndex(candidate_skills, IsExact)
            sp == FirstIndex(candidate_skills, IsPartial)
            te == FirstIndex(candidate_technologies, IsEither)
        IN  IF se > 0 THEN [match_score |-> FOne, evidence |-> candidate_skills[se]]
            ELSE IF sp > 0 THEN [match_score |-> FHalf, evidence |-> candidate_skills[sp]]
            ELSE IF te > 0
                 THEN [match_score |-> IF IsExact(candidate_technologies[te])
                                       THEN FOne ELSE FHalf,
                       evidence |-> candidate_technologies[te]]
            ELSE [match_score |-> FZero, evidence |-> <<>>]))

\* req.get("weight", default): a requirement without the key has weight NoneNum
\* here; weights are in tenths
ReqWeight(req, default) ==
    IF req.weight = NoneNum THEN Frac(default, 10) ELSE Frac(req.weight, 10)

\* a total that counts the requirements
SumWeights_count(reqs, default) == FInt(Len(reqs))

\* sum(req.get("weight", default) for req in reqs)
RECURSIVE SumWeights(_, _)
SumWeights(reqs, default) ==
    IF reqs = <<>> THEN FZero
    ELSE FAdd(ReqWeight(Head(reqs), default), SumWeights(Tail(reqs), default))

\* one category of calculate_skills_score: the score and the matches list
RECURSIVE ScoreRequirements(_, _, _, _, _)
ScoreRequirements(reqs, default, total_weight, candidate_skills, candidate_technologies) ==
    IF reqs = <<>> THEN [score |-> FZero, matches |-> <<>>]
    ELSE With([req |-> Head(reqs),
               m |-> _check_skill_match(Head(reqs).name, candidate_skills,
                                        candidate_technologies),
               w |-> ReqWeight(Head(reqs), default),
               rest |-> ScoreRequirements(Tail(reqs), default, total_weight,
                                          candidate_skills, candidate_technologies)],
              LAMBDA v :
                IF FGt(v.m.match_score, FZero)
                THEN [score |-> FAdd(FDiv(FMul(v.m.match_score, v.w), total_weight),
                                     v.rest.score),
                      matches |-> <<[requirement |-> v.req.name,
                                     match_score |-> v.m.match_score,
                                     evidence |-> v.m.evidence,
                                     weight |-> v.w]>> \o v.rest.matches]
                ELSE v.rest)

CategoryScore(reqs, default, candidate_skills, candidate_technologies) ==
    With(SumWeights(reqs, default), LAMBDA total_weight :
        IF FGt(total_weight, FZero)
        THEN ScoreRequirements(reqs, default, total_weight,
                               candidate_skills, candidate_technologies)
        ELSE [score |-> FZero, matches |-> <<>>])

calculate_skills_score(must_haves, nice_to_haves, candidate_skills, candidate_technologies) ==
    With([must |-> CategoryScore(must_haves, 5, candidate_skills, candidate_technologies),
          nice |-> CategoryScore(nice_to_haves, 3, candidate_skills, candidate_technologies)],
         LAMBDA v :
            [must_have_score |-> v.must.score,
             must_have_matches |-> v.must.matches,
             must_have_total |-> Len(must_haves),
             nice_have_score |-> v.nice.score,
             nice_have_matches |-> v.nice.matches,
             nice_have_total |-> Len(nice_to_haves)])

\* ------------------------------------------------------------------------
\* matching_service.py: experience, location and salary
\* ------------------------------------------------------------------------

\* truth value of an Optional[str] / of an optional number
Truthy(s) == s # NoneStr /\ s # <<>>
TruthyNum(x) == x # NoneNum /\ x # 0

\* "YYYY-MM" -> (year, month); the month is 1 when there is no "-";
\* ok = FALSE stands for the ValueError of int()
ParseYearMonth(date) ==
    With(split_on(date, "-"), LAMBDA parts :
    With([y |-> int(parts[1]),
          m |-> IF Len(parts) > 1 THEN int(parts[2]) ELSE [ok |-> TRUE, value |-> 1]],
         LAMBDA v : [ok |-> v.y.ok /\ v.m.ok, year |-> v.y.value, month |-> v.m.value]))

\* one turn of the loop over candidate_experience: the months the entry adds.
\* skipped: no start_date, or a ValueError caught by the except clause;
\* raised: an error the except clause does not catch (a date that is no str)
ExperienceMonths(exp, now) ==
    IF ~Truthy(exp.start_date) THEN [raised |-> FALSE, months |-> 0]
    ELSE IF exp.start_date = NonStr THEN [raised |-> TRUE, months |-> 0]
    ELSE With(ParseYearMonth(exp.start_date), LAMBDA start :
             IF ~start.ok THEN [raised |-> FALSE, months |-> 0]
             ELSE IF Truthy(exp.end_date)
             THEN IF exp.end_date = NonStr THEN [raised |-> TRUE, months |-> 0]
                  ELSE With(ParseYearMonth(exp.end_date), LAMBDA end :
                           IF ~end.ok THEN [raised |-> FALSE, months |-> 0]
                           ELSE [raised |-> FALSE,
                                 months |-> (end.year - start.year) * 12
                                            + (end.month - start.month)])
             ELSE [raised |-> FALSE,
                   months |-> (now.year - start.year) * 12 + (now.month - start.month)])

\* a loop that ends at the first entry whose dates do not parse
Unparsable(exp) ==
    /\ Truthy(exp.start_date)
    /\ exp.start_date # NonStr
    /\ \/ ~ParseYearMonth(exp.start_date).ok
       \/ Truthy(exp.end_date) /\ exp.end_date # NonStr /\ ~ParseYearMonth(exp.end_date).ok
RECURSIVE TotalMonths_abort(_, _)
TotalMonths_abort(candidate_experience, now) ==
    IF candidate_experience = <<>> \/ Unparsable(Head(candidate_experience))
    THEN [raised |-> FALSE, months |-> 0]
    ELSE With([e |-> ExperienceMonths(Head(candidate_experience), now),
               rest |-> TotalMonths_abort(Tail(candidate_experience), now)],
              LAMBDA v : [raised |-> v.e.raised \/ v.rest.raised,
                          months |-> v.e.months + v.rest.months])

RECURSIVE TotalMonths(_, _)
TotalMonths(candidate_experience, now) ==
    IF candidate_experience = <<>> THEN [raised |-> FALSE, months |-> 0]
    ELSE With([e |-> ExperienceMonths(Head(candidate_experience), now),
               rest |-> TotalMonths(Tail(candidate_experience), now)],
              LAMBDA v : [raised |-> v.e.raised \/ v.rest.raised,
                          months |-> v.e.months + v.rest.months])

\* now is the value datetime.utcnow() returns during the call
calculate_experience_score(required_years, candidate_experience, now) ==
    IF ~TruthyNum(required_years)
    THEN [raised |-> FALSE, score |-> FOne,
          details |-> [years_required |-> 0, years_actual |-> FZero, score |-> FOne]]
    ELSE With(TotalMonths(candidate_experience, now), LAMBDA t :
         With(Frac(t.months, 12), LAMBDA total_years :
         With(LET required == FInt(required_years)
              IN  IF FGe(total_years, required) THEN FOne
                  ELSE IF FGe(total_years, FMul(required, Frac(8, 10))) THEN Frac(8, 10)
                  ELSE IF FGe(total_years, FMul(required, Frac(6, 10))) THEN Frac(6, 10)
                  ELSE FMax(FZero, FDiv(total_years, required)),
              LAMBDA score :
                IF t.raised THEN [raised |-> TRUE]
                ELSE [raised |-> FALSE, score |-> score,
                      details |-> [years_required |-> required_years,
                                   years_actual |-> round(total_years, 1),
                                   score |-> score]])))

\* a check that compares the countries as they are written
HasRightToWork_exact(job_location_country, candidate_right_to_work) ==
    /\ Truthy(job_location_country)
    /\ job_location_country \in Range(candidate_right_to_work)

\* job_location_country in candidate_right_to_work, or equal to one of its
\* entries once both are upper-cased
HasRightToWork(job_location_country, candidate_right_to_work) ==
    /\ Truthy(job_location_country)
    /\ candidate_right_to_work # <<>>
    /\ \/ job_location_country \in Range(candidate_right_to_work)
       \/ \E i \in 1..Len(candidate_right_to_work) :
             upper(candidate_right_to_work[i]) = upper(job_location_country)

CountryMatch(job_location_country, candidate_location_country) ==
    /\ Truthy(job_location_country)
    /\ Truthy(candidate_location_country)
    /\ upper(job_location_country) = upper(candidate_location_country)

CityMatch(job_location_city, candidate_location_city) ==
    /\ Truthy(job_location_city)
    /\ Truthy(candidate_location_city)
    /\ upper(job_location_city) = upper(candidate_location_city)

pRemote == <<"r", "e", "m", "o", "t", "e">>
pHybrid == <<"h", "y", "b", "r", "i", "d">>
pOnsite == <<"o", "n", "s", "i", "t", "e">>

RemoteCompatible(job_location_policy, candidate_remote_pref) ==
    /\ Truthy(job_location_policy)
    /\ Truthy(candidate_remote_pref)
    /\ LET job_policy == lower(job_location_policy)
           candidate_pref == lower(candidate_remote_pref)
       IN  \/ job_policy = pRemote
           \/ job_policy = pHybrid /\ candidate_pref \in {pRemote, pHybrid}
           \/ job_policy = pOnsite /\ candidate_pref \in {pOnsite, pHybrid}

calculate_location_score(job_location_country, job_location_city, job_location_policy, candidate_location_country, candidate_location_city, candidate_remote_pref, candidate_right_to_work) ==
    LET rtw == HasRightToWork(job_location_country, candidate_right_to_work)
        country == CountryMatch(job_location_country, candidate_location_country)
        city == country /\ CityMatch(job_location_city, candidate_location_city)
        remote == RemoteCompatible(job_location_policy, candidate_remote_pref)
        score == FAdd(FAdd(IF rtw THEN Frac(3, 10) ELSE FZero,
                           IF country THEN Frac(4, 10) ELSE FZero),
                      FAdd(IF city THEN Frac(2, 10) ELSE FZero,
                           IF remote THEN Frac(3, 10) ELSE FZero))
    IN  [score |-> FMin(FOne, score),
         details |-> [location_match |-> country,
                      remote_compatibility |-> remote,
                      right_to_work |-> rtw]]

rInsufficient == "Insufficient salary data"
rCurrency == "Currency mismatch"
rWithin == "Target within job range"
rOverlap == "Partial overlap"
rAbove == "Target above job range"
rBelow == "Target below job range (acceptable)"

\* x or y, for optional numbers
OrNum(x, y) == IF TruthyNum(x) THEN x ELSE y

\* raised stands for the TypeError of comparing a number with None
calculate_salary_score(job_salary_min, job_salary_max, job_salary_currency, candidate_target_min, candidate_target_max, candidate_target_currency) ==
    IF ~TruthyNum(job_salary_min) \/ ~TruthyNum(candidate_target_min)
    THEN [raised |-> FALSE, score |-> Frac(5, 10),
          details |-> [score |-> Frac(5, 10), reason |-> rInsufficient]]
    ELSE IF /\ Truthy(job_salary_currency)
            /\ Truthy(candidate_target_currency)
            /\ upper(job_salary_currency) # upper(candidate_target_currency)
    THEN [raised |-> FALSE, score |-> Frac(3, 10),
          details |-> [score |-> Frac(3, 10), reason |-> rCurrency]]
    ELSE
    LET candidate_avg == Frac(candidate_target_min
                              + OrNum(candidate_target_max, candidate_target_min), 2)
        job_avg == Frac(job_salary_min + OrNum(job_salary_max, job_salary_min), 2)
        within_lo == candidate_target_min >= job_salary_min
        \* line 337 compares candidate_target_max with job_salary_max
        raises_337 == within_lo /\ TruthyNum(candidate_target_max)
                      /\ job_salary_max = NoneNum
        within == within_lo /\ (~TruthyNum(candidate_target_max)
                                \/ candidate_target_max <= job_salary_max)
        \* line 341 compares candidate_target_min with job_salary_max
        raises_341 == ~within /\ job_salary_max = NoneNum
        overlaps == /\ candidate_target_min <= job_salary_max
                    /\ (~TruthyNum(candidate_target_max)
                        \/ candidate_target_max >= job_salary_min)
        overlap_min == IF candidate_target_min >= job_salary_min
                       THEN candidate_target_min ELSE job_salary_min
        \* min(candidate_target_max or inf, job_salary_max or inf); job_salary_max
        \* is a positive number wherever this is read
        overlap_max == IF ~TruthyNum(candidate_target_max) THEN job_salary_max
                       ELSE IF candidate_target_max <= job_salary_max
                            THEN candidate_target_max ELSE job_salary_max
        overlap_size == overlap_max - overlap_min
        job_range_size == OrNum(job_salary_max, job_salary_min) - job_salary_min
        overlap_ratio == IF job_range_size > 0 THEN Frac(overlap_size, job_range_size)
                         ELSE FZero
        overlap_score == FAdd(Frac(5, 10), FMul(overlap_ratio, Frac(5, 10)))
        penalty == FMin(FOne, FDiv(FSub(candidate_avg, job_avg), job_avg))
        above_score == FMax(FZero, FSub(Frac(5, 10), penalty))
    IN  IF raises_337 THEN [raised |-> TRUE]
        ELSE IF within
        THEN [raised |-> FALSE, score |-> FOne,
              details |-> [score |-> FOne, candidate_avg |-> candidate_avg,
                           job_avg |-> job_avg, reason |-> rWithin]]
        ELSE IF raises_341 THEN [raised |-> TRUE]
        ELSE IF overlaps
        THEN [raised |-> FALSE, score |-> overlap_score,
              details |-> [score |-> overlap_score, overlap_ratio |-> overlap_ratio,
                           reason |-> rOverlap]]
        ELSE IF FGt(candidate_avg, job_avg)
        THEN [raised |-> FALSE, score |-> above_score,
              details |-> [score |-> above_score, penalty |-> penalty,
                           reason |-> rAbove]]
        ELSE [raised |-> FALSE, score |-> Frac(7, 10),
              details |-> [score |-> Frac(7, 10), reason |-> rBelow]]

\* ------------------------------------------------------------------------
\* matching_service.py: the aggregate score
\* ------------------------------------------------------------------------

\* the module-level WEIGHTS dict as the module defines it
WEIGHTS0 ==
    [skills_must_have |-> Frac(35, 100),
     skills_nice_have |-> Frac(10, 100),
     experience |-> Frac(20, 100),
     location |-> Frac(15, 100),
     salary |-> Frac(10, 100),
     right_to_work |-> Frac(10, 100)]

WeightKeys == DOMAIN WEIGHTS0

\* the names of the skills: a skills entry that is no dict has no .get and
\* raises; an entry whose name is None or empty is left out
SkillNames(skills) == [i \in 1..Len(skills) |-> skills[i].name]
\* an inventory that keeps the entries without a name
ExtractSkills_unfiltered(skills) ==
    IF \E i \in 1..Len(skills) : ~skills[i].isdict
    THEN [raised |-> TRUE, names |-> <<>>]
    ELSE [raised |-> FALSE,
          names |-> [i \in 1..Len(skills) |->
                        IF skills[i].name = NoneStr THEN <<>> ELSE skills[i].name]]

ExtractSkills(skills) ==
    IF \E i \in 1..Len(skills) : ~skills[i].isdict
    THEN [raised |-> TRUE, names |-> <<>>]
    ELSE [raised |-> FALSE, names |-> SelectSeq(SkillNames(skills), Truthy)]

\* the technologies of all experience entries, each once, in first-seen order
RECURSIVE AppendNew(_, _)
AppendNew(acc, techs) ==
    IF techs = <<>> THEN acc
    ELSE LET tech == Head(techs)
         IN  AppendNew(IF Truthy(tech) /\ tech \notin Range(acc)
                       THEN Append(acc, tech) ELSE acc,
                       Tail(techs))

RECURSIVE ExtractTechnologies(_, _)
ExtractTechnologies(acc, experience) ==
    IF experience = <<>> THEN acc
    ELSE ExtractTechnologies(AppendNew(acc, Head(experience).technologies),
                             Tail(experience))

WeightedSum(scores, weights) ==
    FAdd(FAdd(FAdd(FMul(scores.skills_must_have, weights.skills_must_have),
                   FMul(scores.skills_nice_have, weights.skills_nice_have)),
              FAdd(FMul(scores.experience, weights.experience),
                   FMul(scores.location, weights.location))),
         FAdd(FMul(scores.salary, weights.salary),
              FMul(scores.right_to_work, weights.right_to_work)))

\* match_details["weights"] is the WEIGHTS dict itself, not a copy of it
WeightsRef == "WEIGHTS"

\* weights is the value of the global WEIGHTS and now the value of
\* datetime.utcnow() at the call.  The result keeps, beside what the code
\* returns, the six category scores (the call's local variables) in scores.
calculate_match_score(candidate, job, weights, now) ==
    With([extracted |-> ExtractSkills(candidate.skills),
          candidate_technologies |-> ExtractTechnologies(<<>>, candidate.experience)],
         LAMBDA inventory :
    With([skills_details |-> calculate_skills_score(job.must_haves, job.nice_to_haves,
                                                    inventory.extracted.names,
                                                    inventory.candidate_technologies),
          exp |-> calculate_experience_score(job.years_experience_min,
                                             candidate.experience, now),
          loc |-> calculate_location_score(job.primary_location_country,
                                           job.primary_location_city,
                                           job.location_policy,
                                           candidate.location_country,
                                           candidate.location_city,
                                           candidate.remote_preference,
                                           candidate.right_to_work),
          sal |-> calculate_salary_score(job.salary_band_min, job.salary_band_max,
                                         job.salary_currency,
                                         candidate.target_compensation.base_min,
                                         candidate.target_compensation.base_max,
                                         candidate.target_compensation.currency)],
         LAMBDA v :
    IF inventory.extracted.raised \/ v.exp.raised \/ v.sal.raised THEN [raised |-> TRUE]
    ELSE
    With([skills_must_have |-> v.skills_details.must_have_score,
          skills_nice_have |-> v.skills_details.nice_have_score,
          experience |-> v.exp.score,
          location |-> v.loc.score,
          salary |-> v.sal.score,
          right_to_work |-> IF v.loc.details.right_to_work THEN FOne ELSE FZero],
         LAMBDA scores :
    With(WeightedSum(scores, weights), LAMBDA overall_score :
             [raised |-> FALSE,
              overall_score |-> overall_score,
              scores |-> scores,
              match_details |->
                [overall_score |-> round(overall_score, 3),
                 skills |-> v.skills_details,
                 experience |-> v.exp.details,
                 location |-> v.loc.details,
                 salary |-> v.sal.details,
                 weights |-> WeightsRef,
                 breakdown |->
                   [must_have_skills_contribution |->
                        round(FMul(scores.skills_must_have, weights.skills_must_have), 3),
                    nice_have_skills_contribution |->
                        round(FMul(scores.skills_nice_have, weights.skills_nice_have), 3),
                    experience_contribution |->
                        round(FMul(scores.experience, weights.experience), 3),
                    location_contribution |->
                        round(FMul(scores.location, weights.location), 3),
                    salary_contribution |->
                        round(FMul(scores.salary, weights.salary), 3),
                    right_to_work_contribution |->
                        round(FMul(scores.right_to_work, weights.right_to_work), 3)]]]))))

\* ------------------------------------------------------------------------
\* The inputs: the values the fields of a candidate and of a job posting
\* are drawn from
\* ------------------------------------------------------------------------

\* candidate.skills: a list of {"name": ...}; an entry that is no dict has isdict = FALSE
s_none ==
    <<>>
s_node ==
    << [isdict |-> TRUE, name |-> <<"N", "o", "d", "e", ".", "j", "s">>],
       [isdict |-> TRUE, name |-> <<"A", "W", "S">>],
       [isdict |-> TRUE, name |-> <<"P", "o", "s", "t", "g", "r", "e", "S", "Q", "L">>] >>
s_flask ==
    << [isdict |-> TRUE, name |-> <<"p", "y", "t", "h", "o", "n", " ", "f", "l", "a", "s", "k">>] >>
s_blank ==
    << [isdict |-> TRUE, name |-> <<>>],
       [isdict |-> TRUE, name |-> NoneStr],
       [isdict |-> TRUE, name |-> <<" ">>] >>
s_js ==
    << [isdict |-> TRUE, name |-> <<"J", "a", "v", "a", "S", "c", "r", "i", "p", "t">>],
       [isdict |-> TRUE, name |-> <<"R", "e", "a", "c", "t">>] >>
s_bad ==
    << [isdict |-> TRUE, name |-> <<"A", "W", "S">>],
       [isdict |-> FALSE, name |-> NoneStr] >>

\* candidate.experience
e_none ==
    <<>>
e_ongoing ==
    << [start_date |-> <<"2", "0", "1", "9", "-", "0", "1">>,
        end_date |-> NoneStr,
        technologies |-> <<<<"p", "y", "t", "h", "o", "n", " ", "d", "j", "a", "n", "g", "o">>>>] >>
e_two ==
    << [start_date |-> <<"2", "0", "1", "5", "-", "0", "3">>,
        end_date |-> <<"2", "0", "1", "8", "-", "0", "9">>,
        technologies |-> <<<<"A", "W", "S">>, <<>>>>],
       [start_date |-> <<"2", "0", "1", "8", "-", "0", "9">>,
        end_date |-> <<"2", "0", "2", "1", "-", "0", "6">>,
        technologies |-> <<<<"A", "W", "S">>, <<"D", "o", "c", "k", "e", "r">>>>] >>
e_unparsable ==
    << [start_date |-> <<"P", "r", "e", "s", "e", "n", "t">>,
        end_date |-> NoneStr,
        technologies |-> <<<<"N", "o", "d", "e">>>>],
       [start_date |-> <<"2", "0", "2", "0", "-", "0", "1">>,
        end_date |-> <<"n", "o", "w">>,
        technologies |-> <<>>],
       [start_date |-> <<"2", "0", "2", "1">>,
        end_date |-> <<"2", "0", "2", "2", "-", "0", "7">>,
        technologies |-> <<>>] >>
e_concurrent ==
    << [start_date |-> <<"2", "0", "1", "8", "-", "0", "1">>,
        end_date |-> <<"2", "0", "2", "0", "-", "0", "1">>,
        technologies |-> <<>>],
       [start_date |-> <<"2", "0", "1", "9", "-", "0", "1">>,
        end_date |-> <<"2", "0", "2", "1", "-", "0", "1">>,
        technologies |-> <<>>] >>
e_mixed ==
    << [start_date |-> <<"2", "0", "2", "2", "-", "0", "5">>,
        end_date |-> <<>>,
        technologies |-> <<>>],
       [start_date |-> <<"2", "0", "1", "9", "-">>,
        end_date |-> <<"2", "0", "2", "1", "-", "0", "1">>,
        technologies |-> <<>>],
       [start_date |-> NoneStr,
        end_date |-> <<"2", "0", "2", "1", "-", "0", "1">>,
        technologies |-> <<>>],
       [start_date |-> <<"2", "0", "2", "0", "-", "0", "6", "-", "1", "5">>,
        end_date |-> <<" ", "2", "0", "2", "1", " ", "-", "0", "6">>,
        technologies |-> <<>>] >>
e_nonstr ==
    << [start_date |-> NonStr,
        end_date |-> NoneStr,
        technologies |-> <<>>] >>

\* candidate location: country, city, remote_preference, right_to_work
l_uk ==
    [location_country |-> <<"U", "K">>,
     location_city |-> <<"L", "o", "n", "d", "o", "n">>,
     remote_preference |-> <<"o", "n", "s", "i", "t", "e">>,
     right_to_work |-> <<<<"U", "K">>>>]
l_none ==
    [location_country |-> NoneStr,
     location_city |-> NoneStr,
     remote_preference |-> NoneStr,
     right_to_work |-> <<>>]
l_de ==
    [location_country |-> <<"d", "e">>,
     location_city |-> <<"B", "e", "r", "l", "i", "n">>,
     remote_preference |-> <<"R", "e", "m", "o", "t", "e">>,
     right_to_work |-> <<<<"u", "k">>, <<"D", "E">>>>]

\* candidate.target_compensation (amounts in thousands)
t_low ==
    [base_min |-> 60, base_max |-> 65, currency |-> <<"G", "B", "P">>]
t_high ==
    [base_min |-> 95, base_max |-> 100, currency |-> <<"G", "B", "P">>]
t_open ==
    [base_min |-> 75, base_max |-> NoneNum, currency |-> NoneStr]
t_none ==
    [base_min |-> NoneNum, base_max |-> NoneNum, currency |-> NoneStr]
t_mid ==
    [base_min |-> 72, base_max |-> 90, currency |-> <<"g", "b", "p">>]
t_usd ==
    [base_min |-> 70, base_max |-> 80, currency |-> <<"U", "S", "D">>]

\* requirements.must_haves (weights in tenths; NoneNum: no "weight" key)
m_none ==
    <<>>
m_node ==
    << [name |-> <<"N", "o", "d", "e", ".", "j", "s", " ", "&", " ", "T", "y", "p", "e", "S", "c", "r", "i", "p", "t">>,
        weight |-> 5],
       [name |-> <<"A", "W", "S">>,
        weight |-> 3] >>
m_py ==
    << [name |-> <<"p", "y", "t", "h", "o", "n", " ", "d", "j", "a", "n", "g", "o">>,
        weight |-> 10],
       [name |-> <<"f", "l", "a", "s", "k">>,
        weight |-> 1] >>
m_odd ==
    << [name |-> <<>>,
        weight |-> NoneNum],
       [name |-> <<"R", "e", "a", "c", "t">>,
        weight |-> 0] >>
m_zero ==
    << [name |-> <<"A", "W", "S">>,
        weight |-> 0] >>

\* requirements.nice_to_haves
n_none ==
    <<>>
n_docker ==
    << [name |-> <<"D", "o", "c", "k", "e", "r">>,
        weight |-> NoneNum],
       [name |-> <<"p", "o", "s", "t", "g", "r", "e", "s">>,
        weight |-> 2] >>

\* job location: country, city, policy
jl_uk ==
    [primary_location_country |-> <<"U", "K">>,
     primary_location_city |-> <<"L", "o", "n", "d", "o", "n">>,
     location_policy |-> <<"r", "e", "m", "o", "t", "e">>]
jl_de ==
    [primary_location_country |-> <<"D", "E">>,
     primary_location_city |-> NoneStr,
     location_policy |-> <<"o", "n", "s", "i", "t", "e">>]
jl_none ==
    [primary_location_country |-> NoneStr,
     primary_location_city |-> NoneStr,
     location_policy |-> NoneStr]

\* job salary band (amounts in thousands)
b_7080 ==
    [salary_band_min |-> 70, salary_band_max |-> 80, salary_currency |-> <<"G", "B", "P">>]
b_70 ==
    [salary_band_min |-> 70, salary_band_max |-> NoneNum, salary_currency |-> <<"G", "B", "P">>]
b_none ==
    [salary_band_min |-> NoneNum, salary_band_max |-> NoneNum, salary_currency |-> NoneStr]
b_80 ==
    [salary_band_min |-> 80, salary_band_max |-> 80, salary_currency |-> NoneStr]


Cand(full_name, skills, experience, loc, comp) ==
    [full_name |-> full_name,
     skills |-> skills,
     experience |-> experience,
     location_country |-> loc.location_country,
     location_city |-> loc.location_city,
     remote_preference |-> loc.remote_preference,
     right_to_work |-> loc.right_to_work,
     target_compensation |-> comp]

JobP(title, client, must_haves, nice_to_haves, years_experience_min, loc, band) ==
    [title |-> title,
     client |-> client,
     must_haves |-> must_haves,
     nice_to_haves |-> nice_to_haves,
     years_experience_min |-> years_experience_min,
     primary_location_country |-> loc.primary_location_country,
     primary_location_city |-> loc.primary_location_city,
     location_policy |-> loc.location_policy,
     salary_band_min |-> band.salary_band_min,
     salary_band_max |-> band.salary_band_max,
     salary_currency |-> band.salary_currency]

SkillsChoices == {s_none, s_node, s_flask, s_blank, s_js, s_bad}
ExperienceChoices == {e_none, e_ongoing, e_two, e_unparsable, e_nonstr}
LocationChoices == {l_uk, l_none, l_de}
CompChoices == {t_low, t_high, t_open, t_none, t_mid, t_usd}
MustChoices == {m_none, m_node, m_py, m_odd, m_zero}
NiceChoices == {n_none, n_docker}
YearsChoices == {NoneNum, 2, 5}
JobLocationChoices == {jl_uk, jl_de, jl_none}
BandChoices == {b_7080, b_70, b_none, b_80}

\* candidates: every skills list with every experience list, and every
\* location with every target compensation
ScoreCandidates ==
    {Cand("Ann", s, e, l_uk, t_low) : s \in SkillsChoices, e \in ExperienceChoices}
    \cup {Cand("Ann", s_node, e_two, l, t) : l \in LocationChoices, t \in CompChoices}

\* job postings: every requirement set with every minimum of years, and every
\* location with every salary band
ScoreJobs ==
    {JobP("Dev", "Acme", m, n, y, jl_uk, b_7080) :
        m \in MustChoices, n \in NiceChoices, y \in YearsChoices}
    \cup {JobP("Dev", "Acme", m_node, n_none, 5, jl, b) :
            jl \in JobLocationChoices, b \in BandChoices}

\* ------------------------------------------------------------------------
\* matching_service.py: the functions that read the tables.  A table is the
\* sequence of its rows [id, status, data] in storage order.
\* ------------------------------------------------------------------------

\* what .first() returns when no row matches
NoRow == [id |-> 0, status |-> "none"]

\* db.query(Candidate).filter(Candidate.id == candidate_id).first()
get_candidate(rows, candidate_id) ==
    With(FirstIndex(rows, LAMBDA r : r.id = candidate_id), LAMBDA i :
        IF i = 0 THEN NoRow ELSE rows[i])

\* a lookup that forgets the filter on the id
get_job_posting_unfiltered(rows, job_id) ==
    IF rows = <<>> THEN NoRow ELSE rows[1]

\* db.query(JobPosting).filter(JobPosting.id == job_id).first()
get_job_posting(rows, job_id) ==
    With(FirstIndex(rows, LAMBDA r : r.id = job_id), LAMBDA i :
        IF i = 0 THEN NoRow ELSE rows[i])

\* the factor of .limit(limit * 10)
FetchFactor == 10

\* db.query(T).filter(T.status == "active").limit(n).all()
IsActive(row) == row.status = "active"
FetchActive(rows, n) ==
    With(SelectSeq(rows, IsActive), LAMBDA active :
        SubSeq(active, 1, IF n < Len(active) THEN n ELSE Len(active)))

\* The loop over the fetched rows: a pair whose scoring raises is skipped, a
\* score below min_score is left out.  anchor_is_job tells which side of the
\* pair the members are on.  An element keeps the id of the member's row and
\* its score.
RECURSIVE ScoreMembers(_, _, _, _, _, _)
ScoreMembers(members, anchor, anchor_is_job, min_score, weights, now) ==
    IF members = <<>> THEN <<>>
    ELSE With([r |-> IF anchor_is_job
                     THEN calculate_match_score(Head(members).data, anchor.data,
                                                weights, now)
                     ELSE calculate_match_score(anchor.data, Head(members).data,
                                                weights, now),
               rest |-> ScoreMembers(Tail(members), anchor, anchor_is_job,
                                     min_score, weights, now)],
              LAMBDA v :
                IF v.r.raised THEN v.rest
                ELSE IF FGe(v.r.overall_score, min_score)
                THEN <<[id |-> Head(members).id,
                        match_score |-> v.r.overall_score]>> \o v.rest
                ELSE v.rest)

\* matches.sort(key=lambda x: x[1], reverse=True): highest score first, equal
\* scores in the order they had
RECURSIVE InsertByScore(_, _)
InsertByScore(m, sorted) ==
    IF sorted = <<>> THEN <<m>>
    ELSE IF FGe(m.match_score, Head(sorted).match_score) THEN <<m>> \o sorted
    ELSE <<Head(sorted)>> \o InsertByScore(m, Tail(sorted))

\* a ranking that forgets to sort
SortByScore_skipped(matches) == matches

RECURSIVE SortByScore(_)
SortByScore(matches) ==
    IF matches = <<>> THEN <<>>
    ELSE With(SortByScore(Tail(matches)), LAMBDA sorted :
             InsertByScore(Head(matches), sorted))

\* matches[:limit], for limit >= 0
Truncate(matches, limit) ==
    With(matches, LAMBDA m : SubSeq(m, 1, IF limit < Len(m) THEN limit ELSE Len(m)))

RowIds(rows) == [i \in 1..Len(rows) |-> rows[i].id]

\* outcome "not_found" is the ValueError; scored lists the ids of the rows
\* calculate_match_score was called with
match_all_candidates_to_job(candidate_rows, job_rows, job_id, min_score, limit, weights, now) ==
    With(get_job_posting(job_rows, job_id), LAMBDA job :
        IF job = NoRow THEN [outcome |-> "not_found", scored |-> <<>>, list |-> <<>>]
        ELSE With(FetchActive(candidate_rows, limit * FetchFactor), LAMBDA fetched :
                [outcome |-> "ok",
                 scored |-> RowIds(fetched),
                 list |-> Truncate(SortByScore(ScoreMembers(fetched, job, TRUE, min_score,
                                                            weights, now)),
                                   limit)]))

match_candidate_to_all_jobs(candidate_rows, job_rows, candidate_id, min_score, limit, weights, now) ==
    With(get_candidate(candidate_rows, candidate_id), LAMBDA candidate :
        IF candidate = NoRow THEN [outcome |-> "not_found", scored |-> <<>>, list |-> <<>>]
        ELSE With(FetchActive(job_rows, limit * FetchFactor), LAMBDA fetched :
                [outcome |-> "ok",
                 scored |-> RowIds(fetched),
                 list |-> Truncate(SortByScore(ScoreMembers(fetched, candidate, FALSE,
                                                            min_score, weights, now)),
                                   limit)]))

\* a lookup that finds no profile, whatever the table holds
FindProfile_missing(profile_rows, candidate_id, job_id) == 0

\* db.query(CandidateProfile).filter(candidate_id == ..., job_posting_id ==
\* ...).first(): the id of the first profile of the pair, 0 when there is none
FindProfile(profile_rows, candidate_id, job_id) ==
    With(FirstIndex(profile_rows,
                    LAMBDA p : p.candidate_id = candidate_id /\ p.job_posting_id = job_id),
         LAMBDA i : IF i = 0 THEN 0 ELSE profile_rows[i].id)

\* the row db.add(profile) inserts; the JSON column keeps a copy of the
\* details, the weights included
NewProfile(profile_rows, candidate, job, r, weights, now) ==
    [id |-> Len(profile_rows) + 1,
     candidate_id |-> candidate.id,
     job_posting_id |-> job.id,
     profile_name |-> <<candidate.data.full_name, job.data.title, job.data.client>>,
     company_name |-> job.data.client,
     role_title |-> job.data.title,
     match_score |-> r.overall_score,
     match_details |-> [r.match_details EXCEPT !.weights = weights],
     endorsement_text |-> NoneStr,
     interview_notes |-> NoneStr,
     booking_status |-> NoneStr,
     status |-> "active",
     created_at |-> now,
     updated_at |-> now]

\* a table with a uniqueness constraint on the pair and an atomic upsert:
\* the insert becomes an update when the pair has a row by now
WriteProfile_unique(profile_rows, existing, candidate, job, r, weights, now) ==
    With(IF existing > 0 THEN existing
         ELSE FindProfile(profile_rows, candidate.id, job.id), LAMBDA found :
        IF found > 0
        THEN [i \in 1..Len(profile_rows) |->
                IF profile_rows[i].id = found
                THEN [profile_rows[i] EXCEPT
                         !.match_score = r.overall_score,
                         !.match_details = [r.match_details EXCEPT !.weights = weights],
                         !.updated_at = now]
                ELSE profile_rows[i]]
        ELSE Append(profile_rows,
                    NewProfile(profile_rows, candidate, job, r, weights, now)))

\* an update that also makes the profile active again
WriteProfile_reactivate(profile_rows, existing, candidate, job, r, weights, now) ==
    IF existing > 0
    THEN [i \in 1..Len(profile_rows) |->
            IF profile_rows[i].id = existing
            THEN [profile_rows[i] EXCEPT
                     !.match_score = r.overall_score,
                     !.match_details = [r.match_details EXCEPT !.weights = weights],
                     !.status = "active",
                     !.updated_at = now]
            ELSE profile_rows[i]]
    ELSE Append(profile_rows, NewProfile(profile_rows, candidate, job, r, weights, now))

\* what db.commit() writes: the profile the lookup found (existing > 0) is
\* updated, and a new row is inserted when the lookup found none
WriteProfile(profile_rows, existing, candidate, job, r, weights, now) ==
    IF existing > 0
    THEN [i \in 1..Len(profile_rows) |->
            IF profile_rows[i].id = existing
            THEN [profile_rows[i] EXCEPT
                     !.match_score = r.overall_score,
                     !.match_details = [r.match_details EXCEPT !.weights = weights],
                     !.updated_at = now]
            ELSE profile_rows[i]]
    ELSE Append(profile_rows, NewProfile(profile_rows, candidate, job, r, weights, now))

\* the lookup and the write of one call that no other call interleaves with
UpsertProfile(profile_rows, candidate, job, r, weights, now) ==
    WriteProfile(profile_rows, FindProfile(profile_rows, candidate.id, job.id),
                 candidate, job, r, weights, now)

\* outcome "error" is an exception of calculate_match_score, which is not
\* caught here; profiles is the candidate_profiles table after the call
match_candidate_to_job(candidate_rows, job_rows, profile_rows, candidate_id, job_id, create_profile, weights, now) ==
    With(get_candidate(candidate_rows, candidate_id), LAMBDA candidate :
        IF candidate = NoRow
        THEN [outcome |-> "not_found", scored |-> <<>>, profiles |-> profile_rows]
        ELSE With(get_job_posting(job_rows, job_id), LAMBDA job :
        IF job = NoRow
        THEN [outcome |-> "not_found", scored |-> <<>>, profiles |-> profile_rows]
        ELSE With(calculate_match_score(candidate.data, job.data, weights, now), LAMBDA r :
        IF r.raised
        THEN [outcome |-> "error", scored |-> <<candidate.id>>, profiles |-> profile_rows]
        ELSE [outcome |-> "ok",
              scored |-> <<candidate.id>>,
              match_score |-> r.overall_score,
              profiles |-> IF create_profile
                           THEN UpsertProfile(profile_rows, candidate, job, r, weights, now)
                           ELSE profile_rows])))

\* ------------------------------------------------------------------------
\* State
\* ------------------------------------------------------------------------

VARIABLES
    candidates,   \* the candidates table: rows [id, status, data], in storage order
    jobs,         \* the job_postings table: rows [id, status, data]
    profiles,     \* the candidate_profiles table
    WEIGHTS,      \* the module-level WEIGHTS dict of matching_service
    now,          \* the wall clock datetime.utcnow() reads: [year, month]
    results,      \* what calculate_match_score returned to callers that kept it
    ret,          \* what the last call of a match_* function returned or raised
    calls,        \* how many calls of the match_* functions were made
    inflight,     \* per caller, where its call of match_candidate_to_job stands
    op            \* the operation that made the last step

vars == <<candidates, jobs, profiles, WEIGHTS, now, results, ret, calls, inflight, op>>

\* bounds of the model
MaxResults == 2
MaxTicks == 2
MaxSkills == 3
MaxEdits == 1
MaxLimit == 2
MaxProfiles == 2
MaxCalls == 1
MaxPool == 11
MaxCallers == 2
MaxMatches == 3

Now0 == [year |-> 2023, month |-> 11]

Row(id, status, data) == [id |-> id, status |-> status, data |-> data]
NoRet == [op |-> "none"]

\* the callers of match_candidate_to_job, each with a session of its own, and
\* a caller that has no call under way
Callers == 1..MaxCallers
Idle == [pc |-> "idle"]
NoCalls == [p \in Callers |-> Idle]

\* one candidate and one job posting held by a caller of the scoring functions
InitPair(cands, jobps) ==
    /\ \E c \in cands : candidates = <<Row(1, "active", c)>>
    /\ \E j \in jobps : jobs = <<Row(1, "active", j)>>
    /\ profiles = <<>>
    /\ WEIGHTS = WEIGHTS0
    /\ now = Now0
    /\ results = <<>>
    /\ ret = NoRet
    /\ calls = 0
    /\ inflight = NoCalls
    /\ op = "init"

\* ------------------------------------------------------------------------
\* Operations on a candidate and a job held in memory
\* ------------------------------------------------------------------------

\* A call of calculate_match_score whose caller keeps what it returned.  The
\* record also keeps the arguments and the values WEIGHTS and the clock had
\* during the call.
ScoreCall ==
    /\ Len(results) < MaxResults
    /\ \E i \in 1..Len(candidates), k \in 1..Len(jobs) :
          results' = Append(results,
                            [candidate |-> candidates[i].data,
                             job |-> jobs[k].data,
                             weights |-> WEIGHTS,
                             now |-> now,
                             result |-> calculate_match_score(candidates[i].data,
                                                              jobs[k].data, WEIGHTS, now)])
    /\ op' = "calculate_match_score"
    /\ UNCHANGED <<candidates, jobs, profiles, WEIGHTS, now, ret, calls, inflight>>

\* time passes: one month
MonthsAfter(t0, t) == (t.year - t0.year) * 12 + (t.month - t0.month)
NextMonth(t) == IF t.month = 12 THEN [year |-> t.year + 1, month |-> 1]
                ELSE [year |-> t.year, month |-> t.month + 1]
Tick ==
    /\ MonthsAfter(Now0, now) < MaxTicks
    /\ now' = NextMonth(now)
    /\ op' = "tick"
    /\ UNCHANGED <<candidates, jobs, profiles, WEIGHTS, results, ret, calls, inflight>>

\* A caller assigns to a key of the "weights" dict of a match_details it was
\* given, match_details["weights"][k] = v: that dict is WEIGHTS.
EditValues == {FZero, FHalf}
EditReturnedWeights ==
    /\ Cardinality({k \in WeightKeys : WEIGHTS[k] # WEIGHTS0[k]}) < MaxEdits
    /\ \E i \in 1..Len(results), k \in WeightKeys, v \in EditValues :
          /\ ~results[i].result.raised
          /\ results[i].result.match_details.weights = WeightsRef
          /\ WEIGHTS[k] # v
          /\ WEIGHTS' = [WEIGHTS EXCEPT ![k] = v]
    /\ op' = "edit_weights"
    /\ UNCHANGED <<candidates, jobs, profiles, now, results, ret, calls, inflight>>

\* A caller assigns to a key of the match_details dict itself,
\* match_details["overall_score"] = v: the dict was built by the call.
EditReturnedDetails ==
    /\ \E i \in 1..Len(results), v \in EditValues :
          /\ ~results[i].result.raised
          /\ results[i].result.match_details.overall_score # v
          /\ results' = [results EXCEPT ![i].result.match_details.overall_score = v]
    /\ op' = "edit_details"
    /\ UNCHANGED <<candidates, jobs, profiles, WEIGHTS, now, ret, calls, inflight>>

\* skill names a candidate may gain
kPythonFlask == <<"p", "y", "t", "h", "o", "n", " ", "f", "l", "a", "s", "k">>
kFlask == <<"f", "l", "a", "s", "k">>
kAWS == <<"A", "W", "S">>
kReact == <<"R", "e", "a", "c", "t">>
AddableSkills == {kPythonFlask, kFlask, kAWS, kReact}

\* update_candidate(db, id, {"skills": skills + [{"name": s}]})
AddSkill ==
    /\ \E i \in 1..Len(candidates), s \in AddableSkills :
          /\ Len(candidates[i].data.skills) < MaxSkills
          /\ candidates' = [candidates EXCEPT ![i].data.skills =
                                Append(@, [isdict |-> TRUE, name |-> s])]
    /\ op' = "add_skill"
    /\ UNCHANGED <<jobs, profiles, WEIGHTS, now, results, ret, calls, inflight>>

\* ------------------------------------------------------------------------
\* Specifications of the scoring functions
\* ------------------------------------------------------------------------

\* scoring over all the inputs
InitScore == InitPair(ScoreCandidates, ScoreJobs)
NextScore == ScoreCall
SpecScore == InitScore /\ [][NextScore]_vars

\* scoring at different moments
ClockCandidates ==
    {Cand("Ann", s_node, e, l_uk, t_low) :
        e \in ExperienceChoices \cup {e_concurrent, e_mixed}}
ClockJobs ==
    {JobP("Dev", "Acme", m_node, n_none, y, jl_uk, b_7080) : y \in YearsChoices \cup {0}}
InitClock == InitPair(ClockCandidates, ClockJobs)
NextClock == ScoreCall \/ Tick
SpecClock == InitClock /\ [][NextClock]_vars

\* a candidate gaining skills
SkillCandidates ==
    {Cand("Ann", s, e, l_uk, t_low) : s \in SkillsChoices, e \in ExperienceChoices}
SkillJobs ==
    {JobP("Dev", "Acme", m, n, NoneNum, jl_uk, b_7080) : m \in MustChoices, n \in NiceChoices}
InitSkills == InitPair(SkillCandidates, SkillJobs)
NextSkills == AddSkill
SpecSkills == InitSkills /\ [][NextSkills]_vars

\* callers that change the match details they were given
AliasCandidates == {Cand("Ann", s_node, e_two, l_uk, t) : t \in {t_low, t_mid}}
AliasJobs == {JobP("Dev", "Acme", m_node, n_none, 5, jl_uk, b) : b \in {b_7080, b_70}}
InitAlias == InitPair(AliasCandidates, AliasJobs)
NextAlias == ScoreCall \/ EditReturnedWeights \/ EditReturnedDetails
SpecAlias == InitAlias /\ [][NextAlias]_vars

\* ------------------------------------------------------------------------
\* Operations on the tables
\* ------------------------------------------------------------------------

\* the ids a caller asks for: those of the rows and one that no row has
AskedIds(rows) == 1..(Len(rows) + 1)
MinScores == {FZero, Frac(2, 5)}

MatchAllCandidatesToJob ==
    /\ calls < MaxCalls
    /\ \E job_id \in AskedIds(jobs), min_score \in MinScores, limit \in 0..MaxLimit :
          ret' = [op |-> "match_all_candidates_to_job",
                  job_id |-> job_id, min_score |-> min_score, limit |-> limit,
                  call |-> match_all_candidates_to_job(candidates, jobs, job_id,
                                                       min_score, limit, WEIGHTS, now)]
    /\ calls' = calls + 1
    /\ op' = "match_all_candidates_to_job"
    /\ UNCHANGED <<candidates, jobs, profiles, WEIGHTS, now, results, inflight>>

MatchCandidateToAllJobs ==
    /\ calls < MaxCalls
    /\ \E candidate_id \in AskedIds(candidates), min_score \in MinScores,
          limit \in 0..MaxLimit :
          ret' = [op |-> "match_candidate_to_all_jobs",
                  candidate_id |-> candidate_id, min_score |-> min_score, limit |-> limit,
                  call |-> match_candidate_to_all_jobs(candidates, jobs, candidate_id,
                                                       min_score, limit, WEIGHTS, now)]
    /\ calls' = calls + 1
    /\ op' = "match_candidate_to_all_jobs"
    /\ UNCHANGED <<candidates, jobs, profiles, WEIGHTS, now, results, inflight>>

MatchCandidateToJob ==
    /\ calls < MaxCalls
    /\ \E candidate_id \in AskedIds(candidates), job_id \in AskedIds(jobs),
          create_profile \in BOOLEAN :
          \E call \in {match_candidate_to_job(candidates, jobs, profiles, candidate_id,
                                              job_id, create_profile, WEIGHTS, now)} :
              /\ Len(call.profiles) <= MaxProfiles
              /\ profiles' = call.profiles
              /\ ret' = [op |-> "match_candidate_to_job",
                         candidate_id |-> candidate_id, job_id |-> job_id,
                         create_profile |-> create_profile,
                         call |-> call]
    /\ calls' = calls + 1
    /\ op' = "match_candidate_to_job"
    /\ UNCHANGED <<candidates, jobs, WEIGHTS, now, results, inflight>>

\* ------------------------------------------------------------------------
\* Specification of the functions that read the tables
\* ------------------------------------------------------------------------

c_a == Cand("Ann", s_none, e_none, l_uk, t_mid)
c_b == Cand("Bob", s_none, e_none, l_de, t_high)
c_bad == Cand("Dee", s_bad, e_none, l_uk, t_low)
j_uk == JobP("Dev", "Acme", m_none, n_none, NoneNum, jl_uk, b_7080)
j_de == JobP("Ops", "Bolt", m_none, n_none, NoneNum, jl_de, b_80)
j_open == JobP("Dev", "Core", m_none, n_none, NoneNum, jl_uk, b_70)

PoolCandidates == {c_a, c_b, c_bad}
PoolJobs == {j_uk, j_de, j_open}

\* three candidates, the last of them active or deleted, two job postings,
\* the last of them active or archived, and no profile or the one an earlier
\* match of candidate 1 to job 1 left
Init ==
    /\ \E a \in PoolCandidates, b \in PoolCandidates, c \in PoolCandidates,
          st \in {"active", "deleted"} :
          candidates = <<Row(1, "active", a), Row(2, "active", b), Row(3, st, c)>>
    /\ \E a \in PoolJobs, b \in {j_de, j_open}, st \in {"active", "archived"} :
          jobs = <<Row(1, "active", a), Row(2, st, b)>>
    /\ profiles \in {<<>>,
                     match_candidate_to_job(candidates, jobs, <<>>, 1, 1, TRUE,
                                            WEIGHTS0, Now0).profiles}
    /\ WEIGHTS = WEIGHTS0
    /\ now = Now0
    /\ results = <<>>
    /\ ret = NoRet
    /\ calls = 0
    /\ inflight = NoCalls
    /\ op = "init"

Next == MatchAllCandidatesToJob \/ MatchCandidateToAllJobs \/ MatchCandidateToJob
Spec == Init /\ [][Next]_vars

\* ------------------------------------------------------------------------
\* Specification of the ranking functions over a table larger than what one
\* query fetches
\* ------------------------------------------------------------------------

\* MaxPool rows of one kind, but for the row at one position
PoolRows(base, special, position, status) ==
    [i \in 1..MaxPool |-> IF i = position THEN Row(i, status, special)
                          ELSE Row(i, "active", base)]

InitPool ==
    /\ \/ /\ \E base \in PoolCandidates, special \in PoolCandidates,
                position \in 1..MaxPool, st \in {"active", "deleted"} :
                candidates = PoolRows(base, special, position, st)
          /\ jobs = <<Row(1, "active", j_uk)>>
       \/ /\ candidates = <<Row(1, "active", c_a)>>
          /\ \E base \in PoolJobs, special \in PoolJobs,
                position \in 1..MaxPool, st \in {"active", "archived"} :
                jobs = PoolRows(base, special, position, st)
    /\ profiles = <<>>
    /\ WEIGHTS = WEIGHTS0
    /\ now = Now0
    /\ results = <<>>
    /\ ret = NoRet
    /\ calls = 0
    /\ inflight = NoCalls
    /\ op = "init"

NextPool == MatchAllCandidatesToJob \/ MatchCandidateToAllJobs
SpecPool == InitPool /\ [][NextPool]_vars

\* ------------------------------------------------------------------------
\* Properties of the ranking functions
\* ------------------------------------------------------------------------

RankingOps == {"match_all_candidates_to_job", "match_candidate_to_all_jobs"}

\* the last call was a ranking call that returned a list
Ranked == ret.op \in RankingOps /\ ret.call.outcome = "ok"

\* the table the last ranking call drew its pool from, and the score of one
\* of its rows against the anchor of that call
PoolOf(r) == IF r.op = "match_all_candidates_to_job" THEN candidates ELSE jobs
PoolScore(r, member) ==
    IF r.op = "match_all_candidates_to_job"
    THEN calculate_match_score(member.data, get_job_posting(jobs, r.job_id).data,
                               WEIGHTS, now)
    ELSE calculate_match_score(get_candidate(candidates, r.candidate_id).data,
                               member.data, WEIGHTS, now)
ListIds(list) == {list[i].id : i \in 1..Len(list)}

\* C1: the list a ranking call returns is in non-increasing order of score,
\* is no longer than limit, and holds no score below min_score.
C1_RankingSortedBounded ==
    Ranked =>
        /\ Len(ret.call.list) <= ret.limit
        /\ \A i \in 1..Len(ret.call.list) :
              FGe(ret.call.list[i].match_score, ret.min_score)
        /\ \A i \in 1..(Len(ret.call.list) - 1) :
              FGe(ret.call.list[i].match_score, ret.call.list[i + 1].match_score)

\* a ranking that had to reorder and to truncate: three active members at or
\* above a positive min_score, and a list of limit = 2 elements of different
\* scores, the first of them stored after the second
C1_Witness ==
    /\ Ranked
    /\ ret.op = "match_all_candidates_to_job"
    /\ ret.limit = 2
    /\ Len(ret.call.list) = 2
    /\ FGt(ret.min_score, FZero)
    /\ FGt(ret.call.list[1].match_score, ret.call.list[2].match_score)
    /\ ret.call.list[1].id > ret.call.list[2].id
    /\ \A i \in 1..Len(candidates) :
          /\ IsActive(candidates[i])
          /\ ~PoolScore(ret, candidates[i]).raised
          /\ FGe(PoolScore(ret, candidates[i]).overall_score, ret.min_score)

\* C2: a ranking call scores every active member of the pool: no active
\* member left out of the list has a score of at least min_score that is
\* strictly higher than the score of a returned member, and a list shorter
\* than limit holds every active member whose score is at least min_score.
C2_PoolFullyScored ==
    Ranked =>
        \A i \in 1..Len(PoolOf(ret)) :
            LET member == PoolOf(ret)[i]
                r == PoolScore(ret, member)
            IN  (/\ IsActive(member)
                 /\ ~r.raised
                 /\ FGe(r.overall_score, ret.min_score)
                 /\ member.id \notin ListIds(ret.call.list))
                => /\ Len(ret.call.list) >= ret.limit
                   /\ \A k \in 1..Len(ret.call.list) :
                         FGe(ret.call.list[k].match_score, r.overall_score)

\* the table without the row at position i
WithoutRow(rows, i) == SubSeq(rows, 1, i - 1) \o SubSeq(rows, i + 1, Len(rows))

\* what the last ranking call returns when the row at position i of its pool
\* is not in the table
RankingWithout(r, i) ==
    IF r.op = "match_all_candidates_to_job"
    THEN match_all_candidates_to_job(WithoutRow(candidates, i), jobs, r.job_id,
                                     r.min_score, r.limit, WEIGHTS, now)
    ELSE match_candidate_to_all_jobs(candidates, WithoutRow(jobs, i), r.candidate_id,
                                     r.min_score, r.limit, WEIGHTS, now)

\* C5: when scoring a member of the pool raises during a ranking call, the
\* call returns normally and its list is the ranking of the same pool
\* without that member.
C5_RaisingMemberSkipped ==
    (ret.op \in RankingOps /\ ret.call.outcome # "not_found") =>
        \A i \in 1..Len(PoolOf(ret)) :
            (/\ PoolOf(ret)[i].id \in Range(ret.call.scored)
             /\ PoolScore(ret, PoolOf(ret)[i]).raised)
            => /\ ret.call.outcome = "ok"
               /\ ret.call.list = RankingWithout(ret, i).list

\* C6: a call whose anchor is in no row of its table fails with the
\* not-found error, scores no pair and leaves the profiles as they were.
HasId(rows, id) == \E i \in 1..Len(rows) : rows[i].id = id
AnchorMissing(r) ==
    \/ r.op = "match_all_candidates_to_job" /\ ~HasId(jobs, r.job_id)
    \/ r.op = "match_candidate_to_all_jobs" /\ ~HasId(candidates, r.candidate_id)
    \/ /\ r.op = "match_candidate_to_job"
       /\ ~HasId(candidates, r.candidate_id) \/ ~HasId(jobs, r.job_id)
C6_MissingAnchorNotFound ==
    [][(calls' = calls + 1 /\ AnchorMissing(ret'))
       => /\ ret'.call.outcome = "not_found"
          /\ ret'.call.scored = <<>>
          /\ profiles' = profiles]_vars

\* a match of one candidate to a missing job, asked to keep a profile, in a
\* state that holds a profile
C6_Witness ==
    /\ ret.op = "match_candidate_to_job"
    /\ HasId(candidates, ret.candidate_id)
    /\ ~HasId(jobs, ret.job_id)
    /\ ret.create_profile
    /\ ret.call.outcome = "not_found"
    /\ profiles # <<>>

\* ------------------------------------------------------------------------
\* Properties of the scoring functions
\* ------------------------------------------------------------------------

\* a candidate and a job whose fields have the types of the data model, with
\* requirement weights in [0, 1] and salary amounts that are not negative
\* and, where both are given, in order; any optional field may be absent
ValidAmounts(lo, hi) ==
    /\ lo = NoneNum \/ lo >= 0
    /\ hi = NoneNum \/ hi >= 0
    /\ (lo # NoneNum /\ hi # NoneNum) => lo <= hi
ValidRequirements(reqs) ==
    \A k \in 1..Len(reqs) :
        reqs[k].weight = NoneNum \/ (0 <= reqs[k].weight /\ reqs[k].weight <= 10)
ValidCandidate(c) ==
    /\ \A i \in 1..Len(c.skills) : c.skills[i].isdict
    /\ \A i \in 1..Len(c.experience) :
          c.experience[i].start_date # NonStr /\ c.experience[i].end_date # NonStr
    /\ ValidAmounts(c.target_compensation.base_min, c.target_compensation.base_max)
ValidJob(j) ==
    /\ ValidRequirements(j.must_haves)
    /\ ValidRequirements(j.nice_to_haves)
    /\ ValidAmounts(j.salary_band_min, j.salary_band_max)

\* C3: for a valid candidate and job calculate_match_score returns, and the
\* overall score and the six category scores it returns lie in [0, 1].
C3_ScoresInUnitInterval ==
    \A i \in 1..Len(results) :
        (ValidCandidate(results[i].candidate) /\ ValidJob(results[i].job))
        => /\ ~results[i].result.raised
           /\ FInUnit(results[i].result.overall_score)
           /\ \A k \in WeightKeys : FInUnit(results[i].result.scores[k])

\* C4: two calls of calculate_match_score with the same candidate and the
\* same job return the same score and the same details, whenever they are
\* made.
C4_SameInputsSameResult ==
    \A i \in 1..Len(results), k \in 1..Len(results) :
        (/\ results[i].candidate = results[k].candidate
         /\ results[i].job = results[k].job)
        => results[i].result = results[k].result

\* the inventories calculate_match_score builds for a candidate
InventoryOf(c) ==
    [skills |-> ExtractSkills(c.skills),
     technologies |-> ExtractTechnologies(<<>>, c.experience)]
MustHaveScore(c, j) ==
    calculate_skills_score(j.must_haves, j.nice_to_haves, InventoryOf(c).skills.names,
                           InventoryOf(c).technologies).must_have_score

\* C7: when a must-have requirement has no match and the candidate gains a
\* skill that matches that requirement exactly, the must-have score does not
\* get lower.
C7_ExactSkillNeverLowers ==
    [][op' = "add_skill" =>
        \A i \in 1..Len(candidates), j \in 1..Len(jobs) :
            LET before == candidates[i].data
                after == candidates'[i].data
                added == after.skills[Len(after.skills)].name
                must_haves == jobs[j].data.must_haves
            IN  (/\ after # before
                 /\ ~InventoryOf(before).skills.raised
                 /\ \E k \in 1..Len(must_haves) :
                       /\ _check_skill_match(must_haves[k].name,
                                             InventoryOf(before).skills.names,
                                             InventoryOf(before).technologies).match_score
                          = FZero
                       /\ _check_skill_match(must_haves[k].name, <<added>>,
                                             <<>>).match_score = FOne)
                => FGe(MustHaveScore(after, jobs[j].data),
                       MustHaveScore(before, jobs[j].data))]_vars

\* C8: on the inventories calculate_match_score builds, _check_skill_match
\* returns a score of 0, 1/2 or 1, and empty evidence exactly with the score 0.
C8_EvidenceIffMatched ==
    \A i \in 1..Len(results) :
        LET inventory == InventoryOf(results[i].candidate)
            reqs == results[i].job.must_haves \o results[i].job.nice_to_haves
        IN  ~inventory.skills.raised =>
                \A k \in 1..Len(reqs) :
                    LET m == _check_skill_match(reqs[k].name, inventory.skills.names,
                                                inventory.technologies)
                    IN  /\ m.match_score \in {FZero, FHalf, FOne}
                        /\ (m.evidence = <<>>) <=> (m.match_score = FZero)

\* a call that scored a candidate with a nameless skills entry and a named
\* one, and found a must-have requirement matched
C8_Witness ==
    \E i \in 1..Len(results) :
        /\ ~results[i].result.raised
        /\ \E s \in 1..Len(results[i].candidate.skills) :
              ~Truthy(results[i].candidate.skills[s].name)
        /\ \E t \in 1..Len(results[i].candidate.skills) :
              Truthy(results[i].candidate.skills[t].name)
        /\ Len(results[i].result.match_details.skills.must_have_matches) > 0

\* the sum of the six weights of a table
SumOfWeights(weights) ==
    WeightedSum([k \in WeightKeys |-> FOne], weights)

\* C9: at every call of calculate_match_score the six weights it uses sum
\* to 1.
C9_WeightsSumToOne ==
    \A i \in 1..Len(results) : SumOfWeights(results[i].weights) = FOne

\* C10: a caller that changes a result it was given changes neither WEIGHTS
\* nor a result another call returned.
C10_EditsStayLocal ==
    [][op' \in {"edit_weights", "edit_details"} =>
        /\ WEIGHTS' = WEIGHTS
        /\ Cardinality({i \in 1..Len(results) : results'[i] # results[i]}) <= 1]_vars

\* ------------------------------------------------------------------------
\* Properties of the category scores
\* ------------------------------------------------------------------------

kNodeJs == <<"N", "o", "d", "e", ".", "j", "s">>

\* the example: skills Node.js, AWS, PostgreSQL, no technologies, must-haves
\* "Node.js & TypeScript" (0.5) and "AWS" (0.3)
NodeExample(r) ==
    /\ r.candidate.skills = s_node
    /\ ExtractTechnologies(<<>>, r.candidate.experience) = <<>>
    /\ r.job.must_haves = m_node
    /\ ~r.result.raised

\* C14 as stated: in the example "Node.js & TypeScript" is a partial match
\* (0.5) with evidence Node.js, "AWS" an exact one, and the must-have score
\* is 0.5625.
C14_NodeExamplePartial ==
    \A i \in 1..Len(results) :
        NodeExample(results[i]) =>
            LET skills == results[i].result.match_details.skills
            IN  /\ Len(skills.must_have_matches) = 2
                /\ skills.must_have_matches[1].match_score = FHalf
                /\ skills.must_have_matches[1].evidence = kNodeJs
                /\ skills.must_have_matches[2].match_score = FOne
                /\ skills.must_have_score = Frac(5625, 10000)

\* C14, amended: in the example "Node.js & TypeScript" is an exact match
\* (1.0) with evidence Node.js, since the normalised skill is a substring of
\* the normalised requirement, "AWS" is an exact match with evidence AWS,
\* and the must-have score is 1.0.
C14_NodeExampleExact ==
    \A i \in 1..Len(results) :
        NodeExample(results[i]) =>
            LET skills == results[i].result.match_details.skills
            IN  /\ skills.must_have_matches =
                      << [requirement |-> m_node[1].name, match_score |-> FOne,
                          evidence |-> kNodeJs, weight |-> Frac(5, 10)],
                         [requirement |-> kAWS, match_score |-> FOne,
                          evidence |-> kAWS, weight |-> Frac(3, 10)] >>
                /\ skills.must_have_score = FOne
                /\ results[i].result.scores.skills_must_have = FOne

\* a call that scored the example
C14_Witness ==
    \E i \in 1..Len(results) : NodeExample(results[i])

\* the contribution of requirement k of a list: 1 for an exact match, 1/2
\* for a partial one, 0 for none
Contribution(reqs, k, inventory) ==
    _check_skill_match(reqs[k].name, inventory.skills.names,
                       inventory.technologies).match_score
WeightOf(reqs, k, default) ==
    IF reqs[k].weight = NoneNum THEN Frac(default, 10) ELSE Frac(reqs[k].weight, 10)

\* the sums over the first k requirements of a list
RECURSIVE SumOfContributions(_, _, _, _)
SumOfContributions(reqs, k, default, inventory) ==
    IF k = 0 THEN FZero
    ELSE With(SumOfContributions(reqs, k - 1, default, inventory), LAMBDA rest :
             FAdd(rest, FMul(Contribution(reqs, k, inventory),
                             WeightOf(reqs, k, default))))
RECURSIVE SumOfRequirementWeights(_, _, _)
SumOfRequirementWeights(reqs, k, default) ==
    IF k = 0 THEN FZero
    ELSE With(SumOfRequirementWeights(reqs, k - 1, default), LAMBDA rest :
             FAdd(rest, WeightOf(reqs, k, default)))

\* sum(contribution_i * weight_i) / sum(weight_i), and 0 for a list that is
\* empty or whose weights sum to 0
RequirementSetScore(reqs, default, inventory) ==
    With(SumOfRequirementWeights(reqs, Len(reqs), default), LAMBDA total :
        IF total = FZero THEN FZero
        ELSE FDiv(SumOfContributions(reqs, Len(reqs), default, inventory), total))

\* C16: the must-have score and the nice-to-have score calculate_skills_score
\* returns are each the weighted mean of the contributions (1, 1/2 or 0) of
\* the requirements of the category, and 0 for a category that is empty or
\* whose weights sum to 0.
C16_WeightedRequirementScore ==
    \A i \in 1..Len(results) :
        ~results[i].result.raised =>
            LET inventory == InventoryOf(results[i].candidate)
                skills == results[i].result.match_details.skills
                job == results[i].job
            IN  /\ \A k \in 1..Len(job.must_haves) :
                      Contribution(job.must_haves, k, inventory) \in {FZero, FHalf, FOne}
                /\ \A k \in 1..Len(job.nice_to_haves) :
                      Contribution(job.nice_to_haves, k, inventory) \in {FZero, FHalf, FOne}
                /\ skills.must_have_score = RequirementSetScore(job.must_haves, 5, inventory)
                /\ skills.nice_have_score = RequirementSetScore(job.nice_to_haves, 3, inventory)

\* a call with a partial and an exact match among at least two must-haves
\* of different weights and with nice-to-haves of which none is matched
C16_Witness ==
    \E i \in 1..Len(results) :
        /\ ~results[i].result.raised
        /\ LET skills == results[i].result.match_details.skills
           IN  /\ \E k \in 1..Len(skills.must_have_matches) :
                     skills.must_have_matches[k].match_score = FHalf
               /\ \E k \in 1..Len(skills.must_have_matches) :
                     skills.must_have_matches[k].match_score = FOne
               /\ skills.nice_have_total > 0
               /\ skills.nice_have_matches = <<>>
               /\ skills.nice_have_score = FZero
               /\ FGt(skills.must_have_score, FZero)
               /\ FLt(skills.must_have_score, FOne)

\* a call with must-haves whose weights sum to 0
C16_WitnessZeroWeight ==
    \E i \in 1..Len(results) :
        /\ ~results[i].result.raised
        /\ results[i].job.must_haves = m_zero
        /\ results[i].result.match_details.skills.must_have_score = FZero

\* ------------------------------------------------------------------------
\* Specification of the location score: every combination of the seven
\* location fields
\* ------------------------------------------------------------------------

kUK == <<"U", "K">>
kLondon == <<"L", "o", "n", "d", "o", "n">>
JobCountries == {NoneStr, kUK, <<"D", "E">>}
JobCities == {NoneStr, <<>>, kLondon}
JobPolicies == {NoneStr, pRemote, <<"H", "y", "b", "r", "i", "d">>, pOnsite}
CandidateCountries == {NoneStr, <<"u", "k">>, <<"D", "E">>}
CandidateCities == {NoneStr, <<"l", "o", "n", "d", "o", "n">>, <<"L", "e", "e", "d", "s">>}
pUnspecified == <<"u", "n", "s", "p", "e", "c", "i", "f", "i", "e", "d">>
CandidatePreferences ==
    {NoneStr, pRemote, pHybrid, <<"O", "n", "s", "i", "t", "e">>, pUnspecified}
RightsToWork == {<<>>, <<<<"u", "k">>>>, <<<<"F", "R">>, <<"D", "E">>>>}

LocationCandidates ==
    {Cand("Ann", s_node, e_two,
          [location_country |-> country, location_city |-> city,
           remote_preference |-> pref, right_to_work |-> rtw],
          t_low) :
        country \in CandidateCountries, city \in CandidateCities,
        pref \in CandidatePreferences, rtw \in RightsToWork}
LocationJobs ==
    {JobP("Dev", "Acme", m_node, n_none, 5,
          [primary_location_country |-> country, primary_location_city |-> city,
           location_policy |-> policy],
          b_7080) :
        country \in JobCountries, city \in JobCities, policy \in JobPolicies}

InitLocation == InitPair(LocationCandidates, LocationJobs)
NextLocation == ScoreCall
SpecLocation == InitLocation /\ [][NextLocation]_vars

\* the four terms of the location score, in tenths
Present(s) == s # NoneStr /\ s # <<>>
SameIgnoringCase(a, b) == Present(a) /\ Present(b) /\ lower(a) = lower(b)
AuthorizationTerm(c, j) ==
    IF \E k \in 1..Len(c.right_to_work) :
          SameIgnoringCase(j.primary_location_country, c.right_to_work[k])
    THEN 3 ELSE 0
CountryTerm(c, j) ==
    IF SameIgnoringCase(j.primary_location_country, c.location_country) THEN 4 ELSE 0
CityTerm(c, j) ==
    IF /\ SameIgnoringCase(j.primary_location_country, c.location_country)
       /\ SameIgnoringCase(j.primary_location_city, c.location_city)
    THEN 2 ELSE 0
PolicyTerm(c, j) ==
    IF /\ Present(j.location_policy)
       /\ Present(c.remote_preference)
       /\ \/ lower(j.location_policy) = pRemote
          \/ /\ lower(j.location_policy) = pHybrid
             /\ lower(c.remote_preference) \in {pRemote, pHybrid}
          \/ /\ lower(j.location_policy) = pOnsite
             /\ lower(c.remote_preference) \in {pOnsite, pHybrid}
    THEN 3 ELSE 0
LocationTenths(c, j) ==
    AuthorizationTerm(c, j) + CountryTerm(c, j) + CityTerm(c, j) + PolicyTerm(c, j)

MonthsAt(r) == TotalMonths(r.candidate.experience, r.now)

\* the score for total = months / 12 years against required years
ExpectedExperienceScore(months, required) ==
    IF required = NoneNum \/ required = 0 THEN FOne
    ELSE IF months >= 12 * required THEN FOne
    ELSE IF 10 * months >= 8 * 12 * required THEN Frac(8, 10)
    ELSE IF 10 * months >= 6 * 12 * required THEN Frac(6, 10)
    ELSE IF months <= 0 THEN FZero
    ELSE Frac(months, 12 * required)

\* C18: the experience score is 1 when no years are required (absent or 0),
\* whatever the entries; otherwise 1 when the total reaches the requirement,
\* 0.8 when it reaches 0.8 of it, 0.6 when it reaches 0.6 of it, and else
\* total / required, which is at least 0 and below 1.
C18_ExperienceTiers ==
    \A i \in 1..Len(results) :
        LET required == results[i].job.years_experience_min
            score == results[i].result.scores.experience
        IN  /\ (required = NoneNum \/ required = 0) => ~results[i].result.raised
            /\ ~results[i].result.raised =>
                  /\ score = ExpectedExperienceScore(MonthsAt(results[i]).months, required)
                  /\ score \in {FOne, Frac(8, 10), Frac(6, 10)}
                     \/ (FLe(FZero, score) /\ FLt(score, FOne))

\* a call whose total is below 0.6 of the requirement and is scored in
\* proportion
C18_Witness ==
    \E i \in 1..Len(results) :
        /\ ~results[i].result.raised
        /\ results[i].job.years_experience_min = 5
        /\ MonthsAt(results[i]).months = 18
        /\ results[i].result.scores.experience = Frac(3, 10)

\* a call made when the total is the requirement to the month
C18_WitnessBoundary ==
    \E i \in 1..Len(results) :
        /\ ~results[i].result.raised
        /\ results[i].job.years_experience_min = 5
        /\ MonthsAt(results[i]).months = 60
        /\ results[i].result.scores.experience = FOne

\* ------------------------------------------------------------------------
\* Specification of the salary score: every combination of present and
\* absent amounts and currencies (amounts in thousands)
\* ------------------------------------------------------------------------

kGBP == <<"G", "B", "P">>
JobMinima == {NoneNum, 70}
JobMaxima == {NoneNum, 70, 80}
JobCurrencies == {NoneStr, kGBP}
TargetMinima == {NoneNum, 60, 75, 80, 100}
TargetMaxima == {NoneNum, 65, 75, 90, 120}
TargetCurrencies == {NoneStr, <<"g", "b", "p">>, <<"U", "S", "D">>}

\* a maximum, where there is one, is not below the minimum
TargetRanges ==
    {t \in TargetMinima \X TargetMaxima :
        t[1] = NoneNum \/ t[2] = NoneNum \/ t[1] <= t[2]}
SalaryCandidates ==
    {Cand("Ann", s_node, e_two, l_uk,
          [base_min |-> t[1], base_max |-> t[2], currency |-> cur]) :
        t \in TargetRanges, cur \in TargetCurrencies}
SalaryJobs ==
    {JobP("Dev", "Acme", m_node, n_none, 5, jl_uk,
          [salary_band_min |-> lo, salary_band_max |-> hi, salary_currency |-> cur]) :
        lo \in JobMinima, hi \in JobMaxima, cur \in JobCurrencies}

InitSalary == InitPair(SalaryCandidates, SalaryJobs)
NextSalary == ScoreCall
SpecSalary == InitSalary /\ [][NextSalary]_vars

\* C15: whichever of the job minimum, job maximum, target minimum, target
\* maximum and currencies are absent, calculate_salary_score returns a
\* score, and so does calculate_match_score.
C15_MissingSalaryFieldsNeverRaise ==
    \A i \in 1..Len(results) :
        LET band == results[i].job
            target == results[i].candidate.target_compensation
        IN  /\ ~calculate_salary_score(band.salary_band_min, band.salary_band_max,
                                       band.salary_currency, target.base_min,
                                       target.base_max, target.currency).raised
            /\ ~results[i].result.raised

\* both minima are given and the currencies, where both are given, agree
Comparable(r) ==
    /\ r.job.salary_band_min # NoneNum
    /\ r.candidate.target_compensation.base_min # NoneNum
    /\ \/ r.job.salary_currency = NoneStr
       \/ r.candidate.target_compensation.currency = NoneStr
       \/ lower(r.job.salary_currency) = lower(r.candidate.target_compensation.currency)

\* the target range, an absent maximum being the minimum
TargetLow(r) == r.candidate.target_compensation.base_min
TargetHigh(r) ==
    IF r.candidate.target_compensation.base_max = NoneNum THEN TargetLow(r)
    ELSE r.candidate.target_compensation.base_max

\* the two ranges have no point in common
Disjoint(r) ==
    \/ TargetLow(r) > r.job.salary_band_max
    \/ TargetHigh(r) < r.job.salary_band_min

\* max(0, 0.5 - min(1, (candidate_avg - job_avg) / job_avg)) above the band,
\* 0.7 at or below it; the averages are doubled to stay in the integers
ExpectedDisjointScore(r) ==
    LET candidate_sum == TargetLow(r) + TargetHigh(r)
        job_sum == r.job.salary_band_min + r.job.salary_band_max
    IN  IF candidate_sum > job_sum
        THEN IF 2 * (candidate_sum - job_sum) >= job_sum THEN FZero
             ELSE FSub(Frac(1, 2), Frac(candidate_sum - job_sum, job_sum))
        ELSE Frac(7, 10)

\* C19: when the target range (an absent maximum taken as the minimum) and
\* the job band have no point in common, the salary score is
\* max(0, 0.5 - min(1, (candidate_avg - job_avg) / job_avg)) for a target
\* above the band and 0.7 for a target below it.
C19_DisjointRangesPenalty ==
    \A i \in 1..Len(results) :
        (/\ ~results[i].result.raised
         /\ Comparable(results[i])
         /\ results[i].job.salary_band_max # NoneNum
         /\ Disjoint(results[i]))
        => results[i].result.scores.salary = ExpectedDisjointScore(results[i])

\* C20: with both minima given and no currency conflict, the salary score is
\* 1.0 for the reason "Target within job range" exactly when
\* target_min >= job_min and target_max <= job_max, an absent target maximum
\* being target_min.
C20_WithinExactlyWhenContained ==
    \A i \in 1..Len(results) :
        (/\ ~results[i].result.raised
         /\ Comparable(results[i])
         /\ results[i].job.salary_band_max # NoneNum)
        => ((/\ results[i].result.match_details.salary.reason = rWithin
             /\ results[i].result.scores.salary = FOne)
            <=> (/\ TargetLow(results[i]) >= results[i].job.salary_band_min
                 /\ TargetHigh(results[i]) <= results[i].job.salary_band_max))

\* ------------------------------------------------------------------------
\* Properties of the ranking functions: the order of the pool
\* ------------------------------------------------------------------------

\* the same rows in every order a query without ORDER BY may return them
Reorderings(rows) ==
    {[i \in 1..Len(rows) |-> rows[p[i]]] :
        p \in {q \in [1..Len(rows) -> 1..Len(rows)] :
                  \A a, b \in 1..Len(rows) : q[a] = q[b] => a = b}}

\* what the last ranking call returns when its pool is fetched as rows
RankingOver(r, rows) ==
    IF r.op = "match_all_candidates_to_job"
    THEN match_all_candidates_to_job(rows, jobs, r.job_id, r.min_score, r.limit,
                                     WEIGHTS, now)
    ELSE match_candidate_to_all_jobs(candidates, rows, r.candidate_id, r.min_score,
                                     r.limit, WEIGHTS, now)

\* C13: the list a ranking call returns does not depend on the order in
\* which the members of the pool are fetched and scored: every order of the
\* same rows gives the same members in the same positions.
C13_ArrivalOrderIrrelevant ==
    Ranked =>
        \A rows \in Reorderings(PoolOf(ret)) :
            RankingOver(ret, rows).list = ret.call.list

\* ------------------------------------------------------------------------
\* match_candidate_to_job step by step: the reads, the lookup of the profile
\* and the commit of one call are separate statements, and statements of
\* calls made through different sessions interleave
\* ------------------------------------------------------------------------

\* a call that ended: what it returned, and what its lookup had found
Ended(candidate_id, job_id, create_profile, outcome, r, existing, profile_id) ==
    [pc |-> "done", candidate_id |-> candidate_id, job_id |-> job_id,
     create_profile |-> create_profile, outcome |-> outcome, r |-> r,
     existing |-> existing, profile_id |-> profile_id]

\* lines 472-481: the candidate and the job are read and the pair is scored;
\* the call ends here when a row is missing, when the scoring raises, and
\* when no profile is asked for
StartMatch(p) ==
    /\ calls < MaxMatches
    /\ inflight[p].pc \in {"idle", "done"}
    /\ \E candidate_id \in AskedIds(candidates), job_id \in AskedIds(jobs),
          create_profile \in BOOLEAN :
          \E candidate \in {get_candidate(candidates, candidate_id)},
             job \in {get_job_posting(jobs, job_id)} :
             IF candidate = NoRow \/ job = NoRow
             THEN inflight' = [inflight EXCEPT ![p] =
                                  Ended(candidate_id, job_id, create_profile,
                                        "not_found", [raised |-> TRUE], 0, 0)]
             ELSE \E r \in {calculate_match_score(candidate.data, job.data,
                                                  WEIGHTS, now)} :
                     inflight' = [inflight EXCEPT ![p] =
                         IF r.raised
                         THEN Ended(candidate_id, job_id, create_profile, "error", r, 0, 0)
                         ELSE IF ~create_profile
                         THEN Ended(candidate_id, job_id, create_profile, "ok", r, 0, 0)
                         ELSE [pc |-> "scored", candidate_id |-> candidate_id,
                               job_id |-> job_id, create_profile |-> create_profile,
                               candidate |-> candidate, job |-> job, r |-> r]]
    /\ calls' = calls + 1
    /\ op' = "start_match"
    /\ UNCHANGED <<candidates, jobs, profiles, WEIGHTS, now, results, ret>>

\* lines 487-490: existing_profile = db.query(CandidateProfile)...first()
LookupProfile(p) ==
    /\ inflight[p].pc = "scored"
    /\ inflight' = [inflight EXCEPT ![p] =
                       [pc |-> "looked", candidate_id |-> @.candidate_id,
                        job_id |-> @.job_id, create_profile |-> @.create_profile,
                        candidate |-> @.candidate, job |-> @.job, r |-> @.r,
                        existing |-> FindProfile(profiles, @.candidate_id, @.job_id)]]
    /\ op' = "lookup_profile"
    /\ UNCHANGED <<candidates, jobs, profiles, WEIGHTS, now, results, ret, calls>>

\* lines 492-517: the profile found is updated or a new one is added, the
\* session commits and the call returns
SaveProfile(p) ==
    /\ inflight[p].pc = "looked"
    /\ \E written \in {WriteProfile(profiles, inflight[p].existing, inflight[p].candidate,
                                     inflight[p].job, inflight[p].r, WEIGHTS, now)} :
          /\ Len(written) <= MaxProfiles
          /\ profiles' = written
          /\ inflight' = [inflight EXCEPT ![p] =
                             Ended(@.candidate_id, @.job_id, @.create_profile, "ok", @.r,
                                   @.existing,
                                   IF @.existing > 0 THEN @.existing ELSE Len(written))]
    /\ op' = "save_profile"
    /\ UNCHANGED <<candidates, jobs, WEIGHTS, now, results, ret, calls>>

c_on == Cand("Ann", s_none, e_ongoing, l_uk, t_mid)
j_five == JobP("Dev", "Acme", m_none, n_none, 5, jl_uk, b_7080)

\* two candidates, one job posting, and no profile or the one an earlier
\* match of candidate 1 to job 1 left
InitMatch ==
    /\ \E c \in {c_a, c_bad} :
          candidates = <<Row(1, "active", c_on), Row(2, "active", c)>>
    /\ jobs = <<Row(1, "active", j_five)>>
    /\ profiles \in {<<>>,
                     match_candidate_to_job(candidates, jobs, <<>>, 1, 1, TRUE,
                                            WEIGHTS0, Now0).profiles}
    /\ WEIGHTS = WEIGHTS0
    /\ now = Now0
    /\ results = <<>>
    /\ ret = NoRet
    /\ calls = 0
    /\ inflight = NoCalls
    /\ op = "init"

\* calls that do not overlap: one caller, one call after the other, while
\* time passes
NextUpsert == StartMatch(1) \/ LookupProfile(1) \/ SaveProfile(1) \/ Tick
SpecUpsert == InitMatch /\ [][NextUpsert]_vars

\* calls that overlap: every caller at its own pace
NextRace == \E p \in Callers : StartMatch(p) \/ LookupProfile(p) \/ SaveProfile(p)
SpecRace == InitMatch /\ [][NextRace]_vars

\* ------------------------------------------------------------------------
\* Properties of the profile a match leaves
\* ------------------------------------------------------------------------

\* the positions of the profiles of a pair in a table
ProfilesOf(rows, candidate_id, job_id) ==
    {i \in 1..Len(rows) :
        rows[i].candidate_id = candidate_id /\ rows[i].job_posting_id = job_id}

\* a call for a pair that asked for a profile, found none and returned
InsertedFor(p, candidate_id, job_id) ==
    /\ inflight[p].pc = "done"
    /\ inflight[p].outcome = "ok"
    /\ inflight[p].create_profile
    /\ inflight[p].candidate_id = candidate_id
    /\ inflight[p].job_id = job_id
    /\ inflight[p].existing = 0

\* C11: two calls for the same pair, made through different sessions, that
\* both looked the profile up before either committed both insert: there is
\* no guard between lookup and insert and no uniqueness constraint, and the
\* pair is left with two rows.
C11_ConcurrentCallsDuplicate ==
    \A p, q \in Callers :
        \A candidate_id \in AskedIds(candidates), job_id \in AskedIds(jobs) :
            (/\ p # q
             /\ InsertedFor(p, candidate_id, job_id)
             /\ InsertedFor(q, candidate_id, job_id))
            => /\ Cardinality(ProfilesOf(profiles, candidate_id, job_id)) >= 2
               /\ inflight[p].profile_id # inflight[q].profile_id

\* two calls for one pair have returned and the pair has two profiles
C11_Witness ==
    \E p, q \in Callers :
        /\ p # q
        /\ InsertedFor(p, 1, 1)
        /\ InsertedFor(q, 1, 1)
        /\ Cardinality(ProfilesOf(profiles, 1, 1)) = 2

\* C12: when calls do not overlap and no pair has more than one profile to
\* begin with, a call that asks for a profile and returns leaves exactly one
\* profile for its pair: it inserts the row when there was none and updates
\* the row there was otherwise, the match_score and match_details of the row
\* are those of this call, and no other row changes.
C12_SerialUpsertIdempotent ==
    [][\A p \in Callers :
        (inflight[p].pc = "looked" /\ inflight'[p].pc = "done") =>
            LET cid == inflight[p].candidate_id
                jid == inflight[p].job_id
                before == ProfilesOf(profiles, cid, jid)
                after == ProfilesOf(profiles', cid, jid)
            IN  /\ Cardinality(after) = 1
                /\ \A i \in after :
                      /\ profiles'[i].match_score = inflight[p].r.overall_score
                      /\ profiles'[i].match_details =
                             [inflight[p].r.match_details EXCEPT !.weights = WEIGHTS]
                      /\ profiles'[i].id = inflight'[p].profile_id
                /\ IF before = {}
                   THEN Len(profiles') = Len(profiles) + 1
                   ELSE /\ Len(profiles') = Len(profiles)
                        /\ after = before
                        /\ \A i \in after : profiles'[i].id = profiles[i].id
                /\ \A i \in 1..Len(profiles) : i \notin before => profiles'[i] = profiles[i]
      ]_vars

\* a later call has updated, at a later time and with another score, the
\* profile an earlier call inserted, and the pair has that one profile
C12_Witness ==
    /\ inflight[1].pc = "done"
    /\ inflight[1].outcome = "ok"
    /\ inflight[1].existing > 0
    /\ calls >= 2
    /\ \E i \in 1..Len(profiles) :
          /\ ProfilesOf(profiles, inflight[1].candidate_id, inflight[1].job_id) = {i}
          /\ profiles[i].created_at # profiles[i].updated_at
          /\ profiles[i].match_score = inflight[1].r.overall_score
          /\ profiles[i].match_score
                # calculate_match_score(candidates[1].data, jobs[1].data, WEIGHTS0,
                                        profiles[i].created_at).overall_score

\* ------------------------------------------------------------------------
\* Specification of the skill matcher: _check_skill_match and
\* _normalize_skill_name called on their own
\* ------------------------------------------------------------------------

kPythonDjango == <<"p", "y", "t", "h", "o", "n", " ", "d", "j", "a", "n", "g", "o">>
kNodeTypeScript == <<"N", "o", "d", "e", ".", "j", "s", " ", "&", " ", "T", "y", "p", "e", "S", "c", "r", "i", "p", "t">>
kTypeScriptReact == <<"T", "y", "p", "e", "S", "c", "r", "i", "p", "t", "/", "R", "e", "a", "c", "t">>
kKafkaGo == <<"K", "a", "f", "k", "a", " ", "&", " ", "G", "o">>
kSparkGo == <<"S", "p", "a", "r", "k", " ", "&", " ", "G", "o">>
kNode == <<"N", "o", "d", "e">>
kPostgreSQL == <<"P", "o", "s", "t", "g", "r", "e", "S", "Q", "L">>
kBlank == <<" ">>

\* the arguments of _check_skill_match
MatcherRequirements ==
    {kPythonDjango, kNodeTypeScript, kKafkaGo, kAWS, kFlask, kNode, kBlank, <<>>}
MatcherSkills ==
    {<<>>, <<kPythonFlask>>, <<kTypeScriptReact>>, <<kSparkGo>>, <<kBlank>>,
     <<kNodeJs, kAWS, kPostgreSQL>>, <<kPythonFlask, kPythonDjango>>}
MatcherTechnologies ==
    {<<>>, <<kPythonDjango>>, <<kPythonFlask, kPythonDjango>>, <<kNode>>}
\* the arguments of _normalize_skill_name
MatcherLabels ==
    MatcherRequirements
    \cup {kNodeJs, kPostgreSQL, kReact, kPythonFlask, kTypeScriptReact,
          <<"N", "o", "d", "e", "J", "S">>, <<" ", "R", "e", "a", "c", "t", "J", "S", " ">>,
          <<"p", "o", "s", "t", "g", "r", "e", "s">>, <<"D", "o", "c", "k", "e", "r">>}

\* a call of _check_skill_match
CheckSkillMatch ==
    /\ \E requirement \in MatcherRequirements, candidate_skills \in MatcherSkills,
          candidate_technologies \in MatcherTechnologies :
          ret' = [op |-> "_check_skill_match",
                  requirement |-> requirement,
                  candidate_skills |-> candidate_skills,
                  candidate_technologies |-> candidate_technologies,
                  call |-> _check_skill_match(requirement, candidate_skills,
                                              candidate_technologies)]
    /\ op' = "_check_skill_match"
    /\ UNCHANGED <<candidates, jobs, profiles, WEIGHTS, now, results, calls, inflight>>

\* a call of _normalize_skill_name
NormalizeSkillName ==
    /\ \E skill_name \in MatcherLabels :
          ret' = [op |-> "_normalize_skill_name",
                  skill_name |-> skill_name,
                  call |-> _normalize_skill_name(skill_name)]
    /\ op' = "_normalize_skill_name"
    /\ UNCHANGED <<candidates, jobs, profiles, WEIGHTS, now, results, calls, inflight>>

\* the two functions read no table
InitMatcher ==
    /\ candidates = <<>>
    /\ jobs = <<>>
    /\ profiles = <<>>
    /\ WEIGHTS = WEIGHTS0
    /\ now = Now0
    /\ results = <<>>
    /\ ret = NoRet
    /\ calls = 0
    /\ inflight = NoCalls
    /\ op = "init"
NextMatcher == CheckSkillMatch \/ NormalizeSkillName
SpecMatcher == InitMatcher /\ [][NextMatcher]_vars

\* ------------------------------------------------------------------------
\* Properties of the skill matcher
\* ------------------------------------------------------------------------

\* the entries a call scans: the skills, then the technologies
EntriesOf(r) == r.candidate_skills \o r.candidate_technologies

\* one normalised name is a substring of the other
InSubstringRelation(requirement, entry) ==
    With(<<_normalize_skill_name(requirement), _normalize_skill_name(entry)>>, LAMBDA n :
        Contains(n[1], n[2]) \/ Contains(n[2], n[1]))

\* the position in EntriesOf(r) of the first entry in a substring relation
\* with the requirement, 0 when there is none
FirstExact(r) ==
    FirstIndex(EntriesOf(r), LAMBDA entry : InSubstringRelation(r.requirement, entry))

\* C21: when some skill or technology is in a substring relation with the
\* requirement, _check_skill_match returns 1.0 with the first such entry of
\* the skills followed by the technologies as evidence; it returns 0.5 only
\* when no skill and no technology is in that relation.
C21_ExactBeforePartial ==
    ret.op = "_check_skill_match" =>
        /\ FirstExact(ret) > 0 =>
              ret.call = [match_score |-> FOne, evidence |-> EntriesOf(ret)[FirstExact(ret)]]
        /\ ret.call.match_score = FHalf => FirstExact(ret) = 0

\* the tokens of a normalised name: the maximal runs of characters other
\* than whitespace and ( ) / &, those of more than 2 characters
TokenSeparators == Whitespace \cup {"(", ")", "/", "&"}
RECURSIVE TokensFrom(_, _, _)
TokensFrom(s, i, cur) ==
    LET done == IF Len(cur) > 2 THEN {cur} ELSE {}
    IN  IF i > Len(s) THEN done
        ELSE IF s[i] \in TokenSeparators THEN done \cup TokensFrom(s, i + 1, <<>>)
        ELSE TokensFrom(s, i + 1, Append(cur, s[i]))
TokensOf(name) == TokensFrom(_normalize_skill_name(name), 1, <<>>)

\* the entry shares a token with the requirement, and the shared tokens are
\* at least half as many as the tokens of the requirement
SharesHalfOfTokens(requirement, entry) ==
    With(<<TokensOf(requirement), TokensOf(entry)>>, LAMBDA t :
        /\ t[1] \cap t[2] # {}
        /\ 2 * Cardinality(t[1] \cap t[2]) >= Cardinality(t[1]))
FirstPartial(r) ==
    FirstIndex(EntriesOf(r), LAMBDA entry : SharesHalfOfTokens(r.requirement, entry))

\* C22: when no entry matches exactly, _check_skill_match returns 0.5 with
\* the first entry (skills, then technologies) whose tokens shared with the
\* requirement are at least 50% of the requirement's tokens, the tokens being
\* cut at whitespace and at ( ) / & and kept when longer than 2 characters;
\* it returns 0.5 for no other entry.
C22_PartialByTokens ==
    ret.op = "_check_skill_match" =>
        /\ (FirstExact(ret) = 0 /\ FirstPartial(ret) > 0) =>
              ret.call = [match_score |-> FHalf, evidence |-> EntriesOf(ret)[FirstPartial(ret)]]
        /\ ret.call.match_score = FHalf =>
              /\ FirstPartial(ret) > 0
              /\ ret.call.evidence = EntriesOf(ret)[FirstPartial(ret)]

\* a text whose characters are marked as written in the label or produced
\* by a substitution
Marked(s, produced) == [i \in 1..Len(s) |-> [c |-> s[i], produced |-> produced]]
Unmarked(t) == [i \in 1..Len(t) |-> t[i].c]

\* old occurs at position i of t in characters no substitution produced
OriginalAt(old, t, i) ==
    /\ i + Len(old) - 1 <= Len(t)
    /\ \A k \in 1..Len(old) : t[i + k - 1].c = old[k] /\ ~t[i + k - 1].produced

\* one pair of the table applied to the text written in the label only
RECURSIVE SubstituteFrom(_, _, _, _)
SubstituteFrom(t, old, new, i) ==
    IF i > Len(t) THEN <<>>
    ELSE IF OriginalAt(old, t, i)
         THEN Marked(new, TRUE) \o SubstituteFrom(t, old, new, i + Len(old))
         ELSE <<t[i]>> \o SubstituteFrom(t, old, new, i + 1)

\* every pair of the table once, in table order, none of them rewriting
\* what an earlier one produced
RECURSIVE SubstituteAll(_, _)
SubstituteAll(t, k) ==
    IF k > Len(aliases) THEN t
    ELSE With(SubstituteFrom(t, aliases[k].alias, aliases[k].canonical, 1),
              LAMBDA substituted : SubstituteAll(substituted, k + 1))
NormalizedOnce(skill_name) ==
    Unmarked(SubstituteAll(Marked(strip(lower(skill_name)), FALSE), 1))

\* C23: _normalize_skill_name returns the lower-cased, trimmed label with
\* each pair of the alias table applied once, in table order, to the text of
\* the label: what one substitution produced is not rewritten by a later
\* pair.
C23_SubstitutionsNotRescanned ==
    ret.op = "_normalize_skill_name" => ret.call = NormalizedOnce(ret.skill_name)

\* the name has characters left once it is normalised
HasText(name) == _normalize_skill_name(name) # <<>>

\* C30: on the inventories calculate_match_score builds, a requirement whose
\* normalised name is empty is matched by nothing, a skill or technology
\* whose normalised name is empty matches nothing, and the must-have and
\* nice-to-have scores are what they are without such skills and technologies.
C30_NoMatchWithoutText ==
    \A i \in 1..Len(results) :
        ~results[i].result.raised =>
            LET inventory == InventoryOf(results[i].candidate)
                skills == results[i].result.match_details.skills
                job == results[i].job
                matches == skills.must_have_matches \o skills.nice_have_matches
                without == calculate_skills_score(
                               job.must_haves, job.nice_to_haves,
                               SelectSeq(inventory.skills.names, HasText),
                               SelectSeq(inventory.technologies, HasText))
            IN  /\ \A k \in 1..Len(matches) :
                      HasText(matches[k].requirement) /\ HasText(matches[k].evidence)
                /\ skills.must_have_score = without.must_have_score
                /\ skills.nice_have_score = without.nice_have_score

\* ------------------------------------------------------------------------
\* Properties of the location score: the remote-policy term
\* ------------------------------------------------------------------------

\* the location score in tenths with and without the remote-policy term
TenthsWithPolicy(c, j, granted) ==
    LET tenths == AuthorizationTerm(c, j) + CountryTerm(c, j) + CityTerm(c, j)
                  + (IF granted THEN 3 ELSE 0)
    IN  IF tenths > 10 THEN 10 ELSE tenths

\* C24: a remote job grants the remote-policy term (0.3) to every candidate,
\* whatever the remote preference, unspecified or absent included; a hybrid
\* job grants it exactly to the preferences remote and hybrid, an onsite job
\* exactly to the preferences onsite and hybrid.
C24_RemotePolicyMatrix ==
    \A i \in 1..Len(results) :
        ~results[i].result.raised =>
            LET c == results[i].candidate
                j == results[i].job
                policy == lower(j.location_policy)
                preference == lower(c.remote_preference)
                granted == results[i].result.match_details.location.remote_compatibility
            IN  /\ results[i].result.scores.location
                       = Frac(TenthsWithPolicy(c, j, granted), 10)
                /\ policy = pRemote => granted
                /\ policy = pHybrid => (granted <=> preference \in {pRemote, pHybrid})
                /\ policy = pOnsite => (granted <=> preference \in {pOnsite, pHybrid})

\* ------------------------------------------------------------------------
\* Properties of the experience score: the total
\* ------------------------------------------------------------------------

\* a date read as the fields "-" separates: the first is the year, the
\* second, when there is one, the month, and the month is 1 otherwise; the
\* date parses when these fields are decimal numbers
FieldsOf(date) == split_on(date, "-")
IsNumber(field) == IsDigits(strip(field))
DateParses(date) ==
    /\ IsNumber(FieldsOf(date)[1])
    /\ Len(FieldsOf(date)) > 1 => IsNumber(FieldsOf(date)[2])
YearOf(date) == DigitsValue(strip(FieldsOf(date)[1]))
MonthOf(date) == IF Len(FieldsOf(date)) > 1 THEN DigitsValue(strip(FieldsOf(date)[2])) ELSE 1

\* the entry counts: it has a start date and its dates parse; an entry
\* without an end date lasts until the time of the call
HasDate(date) == date # NoneStr /\ date # <<>>
EntryCounts(exp) ==
    /\ HasDate(exp.start_date)
    /\ DateParses(exp.start_date)
    /\ HasDate(exp.end_date) => DateParses(exp.end_date)
EntryMonths(exp, at) ==
    IF HasDate(exp.end_date)
    THEN (YearOf(exp.end_date) - YearOf(exp.start_date)) * 12
         + (MonthOf(exp.end_date) - MonthOf(exp.start_date))
    ELSE (at.year - YearOf(exp.start_date)) * 12 + (at.month - MonthOf(exp.start_date))

\* the months of the first k entries that count, each in full
RECURSIVE SumOfEntryMonths(_, _, _)
SumOfEntryMonths(experience, k, at) ==
    IF k = 0 THEN 0
    ELSE SumOfEntryMonths(experience, k - 1, at)
         + (IF EntryCounts(experience[k]) THEN EntryMonths(experience[k], at) ELSE 0)

\* every date of the entries is a string or absent
DatesAreStrings(experience) ==
    \A k \in 1..Len(experience) :
        experience[k].start_date # NonStr /\ experience[k].end_date # NonStr

\* C25: with years required and dates that are strings or absent,
\* calculate_experience_score does not raise, and the total it reports and
\* scores is the sum, over the entries whose dates parse, of the months
\* from start to end (to the time of the call without an end date), divided
\* by 12; concurrent entries each count in full and an entry whose dates do
\* not parse adds nothing and leaves the other entries' months as they are.
C25_ExperienceIsPlainSum ==
    \A i \in 1..Len(results) :
        LET experience == results[i].candidate.experience
            required == results[i].job.years_experience_min
            months == SumOfEntryMonths(experience, Len(experience), results[i].now)
        IN  (required # NoneNum /\ required # 0 /\ DatesAreStrings(experience)) =>
                /\ ~results[i].result.raised
                /\ results[i].result.match_details.experience.years_actual
                       = round(Frac(months, 12), 1)
                /\ results[i].result.scores.experience
                       = ExpectedExperienceScore(months, required)

\* a call that scored three entries of which the first has a start date and
\* the second an end date that do not parse: the third counts, 18 months
C25_Witness ==
    \E i \in 1..Len(results) :
        /\ results[i].candidate.experience = e_unparsable
        /\ results[i].job.years_experience_min = 5
        /\ ~results[i].result.raised
        /\ results[i].result.match_details.experience.years_actual = Frac(15, 10)
        /\ results[i].result.scores.experience = Frac(3, 10)

\* a call that scored two roles of 24 months each, 12 of them concurrent, as
\* 4.0 years
C25_WitnessConcurrent ==
    \E i \in 1..Len(results) :
        /\ results[i].candidate.experience = e_concurrent
        /\ results[i].job.years_experience_min = 5
        /\ ~results[i].result.raised
        /\ results[i].result.match_details.experience.years_actual = FInt(4)
        /\ results[i].result.scores.experience = Frac(8, 10)

\* ------------------------------------------------------------------------
\* Properties of the aggregate score
\* ------------------------------------------------------------------------

\* 0.35 must-have + 0.10 nice-to-have + 0.20 experience + 0.15 location
\* + 0.10 salary + 0.10 right-to-work
DeclaredSum(scores) ==
    FAdd(FAdd(FAdd(FMul(Frac(35, 100), scores.skills_must_have),
                   FMul(Frac(10, 100), scores.skills_nice_have)),
              FAdd(FMul(Frac(20, 100), scores.experience),
                   FMul(Frac(15, 100), scores.location))),
         FAdd(FMul(Frac(10, 100), scores.salary),
              FMul(Frac(10, 100), scores.right_to_work)))

\* C26: the overall score of a call is 0.35 x must-have + 0.10 x
\* nice-to-have + 0.20 x experience + 0.15 x location + 0.10 x salary
\* + 0.10 x right-to-work over the category scores of the call, and the
\* right-to-work score is 1 when the work-authorization term is part of the
\* location score of the call and 0 otherwise.
C26_OverallIsDeclaredSum ==
    \A i \in 1..Len(results) :
        ~results[i].result.raised =>
            LET c == results[i].candidate
                j == results[i].job
                scores == results[i].result.scores
            IN  /\ results[i].result.overall_score = DeclaredSum(scores)
                /\ scores.right_to_work
                       = (IF AuthorizationTerm(c, j) = 3 THEN FOne ELSE FZero)
                /\ results[i].result.match_details.location.right_to_work
                       <=> AuthorizationTerm(c, j) = 3
                /\ scores.location
                       = Frac(IF LocationTenths(c, j) > 10 THEN 10 ELSE LocationTenths(c, j), 10)

\* ------------------------------------------------------------------------
\* profile_service.py and candidate_service.py: the operations on profiles
\* and the soft delete of a candidate
\* ------------------------------------------------------------------------

\* rows [row, key] sorted by key, highest first (ORDER BY ... DESC), rows of
\* equal key in the order they had
RECURSIVE InsertDescending(_, _)
InsertDescending(keyed, sorted) ==
    IF sorted = <<>> THEN <<keyed>>
    ELSE IF FGt(Head(sorted).key, keyed.key)
         THEN <<Head(sorted)>> \o InsertDescending(keyed, Tail(sorted))
         ELSE <<keyed>> \o sorted
RECURSIVE OrderDescending(_)
OrderDescending(keyeds) ==
    IF keyeds = <<>> THEN <<>>
    ELSE With(OrderDescending(Tail(keyeds)), LAMBDA sorted :
             InsertDescending(Head(keyeds), sorted))

\* query.offset(skip).limit(limit).all()
OffsetLimit(rows, skip, limit) ==
    With(rows, LAMBDA r :
        SubSeq(r, skip + 1, IF skip + limit < Len(r) THEN skip + limit ELSE Len(r)))

MonthNumber(t) == t.year * 12 + t.month

\* get_profiles_by_candidate(db, candidate_id) with status=None, skip=0,
\* limit=100: the profiles of the candidate that are not archived, newest
\* first
get_profiles_by_candidate(profile_rows, candidate_id) ==
    With(SelectSeq(profile_rows,
                   LAMBDA p : p.candidate_id = candidate_id /\ p.status # "archived"),
         LAMBDA found :
            With(OrderDescending([i \in 1..Len(found) |->
                                     [row |-> found[i],
                                      key |-> FInt(MonthNumber(found[i].created_at))]]),
                 LAMBDA ordered :
                    OffsetLimit([i \in 1..Len(ordered) |-> ordered[i].row], 0, 100)))

\* get_profiles_by_job(db, job_id) with status=None, skip=0, limit=100: the
\* profiles of the job that are not archived, best match first
get_profiles_by_job(profile_rows, job_id) ==
    With(SelectSeq(profile_rows,
                   LAMBDA p : p.job_posting_id = job_id /\ p.status # "archived"),
         LAMBDA found :
            With(OrderDescending([i \in 1..Len(found) |->
                                     [row |-> found[i], key |-> found[i].match_score]]),
                 LAMBDA ordered :
                    OffsetLimit([i \in 1..Len(ordered) |-> ordered[i].row], 0, 100)))

\* delete_profile(db, profile_id): the profile is archived, not removed
DeleteProfile ==
    /\ \E i \in 1..Len(profiles) :
          /\ profiles[i].status # "archived"
          /\ profiles' = [profiles EXCEPT ![i].status = "archived",
                                          ![i].updated_at = now]
    /\ op' = "delete_profile"
    /\ UNCHANGED <<candidates, jobs, WEIGHTS, now, results, ret, calls, inflight>>

\* update_profile_endorsement(db, profile_id, endorsement_text=text)
kEndorsed == <<"P", "r", "o", "c", "e", "e", "d">>
UpdateProfileEndorsement ==
    /\ \E i \in 1..Len(profiles) :
          /\ profiles[i].endorsement_text # kEndorsed
          /\ profiles' = [profiles EXCEPT ![i].endorsement_text = kEndorsed,
                                          ![i].updated_at = now]
    /\ op' = "update_profile_endorsement"
    /\ UNCHANGED <<candidates, jobs, WEIGHTS, now, results, ret, calls, inflight>>

\* delete_candidate(db, candidate_id): the candidate is marked deleted, the
\* row stays
DeleteCandidate ==
    /\ \E i \in 1..Len(candidates) :
          /\ candidates[i].status # "deleted"
          /\ candidates' = [candidates EXCEPT ![i].status = "deleted"]
    /\ op' = "delete_candidate"
    /\ UNCHANGED <<jobs, profiles, WEIGHTS, now, results, ret, calls, inflight>>

\* two candidates, one job posting, and no profile or the one an earlier
\* match of candidate 1 to job 1 left last month
InitProfiles ==
    /\ candidates = <<Row(1, "active", c_on), Row(2, "active", c_a)>>
    /\ jobs = <<Row(1, "active", j_five)>>
    /\ \/ profiles = <<>> /\ now = Now0
       \/ /\ profiles = match_candidate_to_job(candidates, jobs, <<>>, 1, 1, TRUE,
                                               WEIGHTS0, Now0).profiles
          /\ now = NextMonth(Now0)
    /\ WEIGHTS = WEIGHTS0
    /\ results = <<>>
    /\ ret = NoRet
    /\ calls = 0
    /\ inflight = NoCalls
    /\ op = "init"

\* match_all_candidates_to_job(db, job_id) with the defaults min_score=0.0,
\* limit=100
RankCandidatesForJob ==
    /\ calls < MaxMatches
    /\ \E job_id \in AskedIds(jobs) :
          ret' = [op |-> "match_all_candidates_to_job",
                  job_id |-> job_id, min_score |-> FZero, limit |-> 100,
                  call |-> match_all_candidates_to_job(candidates, jobs, job_id,
                                                       FZero, 100, WEIGHTS, now)]
    /\ op' = "match_all_candidates_to_job"
    /\ calls' = calls + 1
    /\ UNCHANGED <<candidates, jobs, profiles, WEIGHTS, now, results, inflight>>

\* match_candidate_to_all_jobs(db, candidate_id) with the defaults
\* min_score=0.0, limit=100
RankJobsForCandidate ==
    /\ calls < MaxMatches
    /\ \E candidate_id \in AskedIds(candidates) :
          ret' = [op |-> "match_candidate_to_all_jobs",
                  candidate_id |-> candidate_id, min_score |-> FZero, limit |-> 100,
                  call |-> match_candidate_to_all_jobs(candidates, jobs, candidate_id,
                                                       FZero, 100, WEIGHTS, now)]
    /\ op' = "match_candidate_to_all_jobs"
    /\ calls' = calls + 1
    /\ UNCHANGED <<candidates, jobs, profiles, WEIGHTS, now, results, inflight>>

\* matches by one caller, one call after the other, among the rankings and
\* the operations on profiles and candidates
NextProfiles ==
    \/ StartMatch(1) \/ LookupProfile(1) \/ SaveProfile(1)
    \/ RankCandidatesForJob \/ RankJobsForCandidate
    \/ DeleteProfile \/ UpdateProfileEndorsement \/ DeleteCandidate
SpecProfiles == InitProfiles /\ [][NextProfiles]_vars

\* ------------------------------------------------------------------------
\* Properties of the profiles table under the matching operations
\* ------------------------------------------------------------------------

\* the columns an update of lines 492-497 assigns
UpdatedColumns == {"match_score", "match_details", "updated_at"}

\* the positions of the table that a step inserted or changed
TouchedRows(before, after) ==
    {i \in 1..Len(after) : i > Len(before) \/ after[i] # before[i]}

\* C27: a call of match_candidate_to_job changes at most one profile row,
\* and that row is of the pair of the call; on a row that existed it changes
\* no column other than match_score, match_details and updated_at, so
\* status, the names and the endorsement, interview and booking columns stay
\* as they were; the steps of the call before its write, a call with
\* create_profile=False and both ranking operations leave the table as it
\* was.
C27_MatchFrame ==
    [][/\ op' \in {"start_match", "lookup_profile", "match_all_candidates_to_job",
                   "match_candidate_to_all_jobs"}
          => profiles' = profiles
       /\ (inflight'[1] # inflight[1] /\ inflight'[1].pc = "done"
              /\ ~inflight'[1].create_profile)
          => profiles' = profiles
       /\ (inflight[1].pc = "looked" /\ inflight'[1].pc = "done")
          => /\ Len(profiles') >= Len(profiles)
             /\ Cardinality(TouchedRows(profiles, profiles')) <= 1
             /\ \A i \in TouchedRows(profiles, profiles') :
                   /\ profiles'[i].candidate_id = inflight[1].candidate_id
                   /\ profiles'[i].job_posting_id = inflight[1].job_id
                   /\ i <= Len(profiles)
                      => \A column \in DOMAIN profiles[i] \ UpdatedColumns :
                            profiles'[i][column] = profiles[i][column]
      ]_vars

\* a call has just updated the profile of its pair, which had been endorsed
\* and then archived, next to the profile of another pair
C27_Witness ==
    /\ op = "save_profile"
    /\ inflight[1].pc = "done"
    /\ inflight[1].existing > 0
    /\ Len(profiles) = 2
    /\ \E i \in 1..Len(profiles) :
          /\ profiles[i].id = inflight[1].existing
          /\ profiles[i].status = "archived"
          /\ profiles[i].endorsement_text = kEndorsed
          /\ profiles[i].match_score = inflight[1].r.overall_score
          /\ profiles[i].updated_at = now
          /\ profiles[i].created_at # now

\* the pair has a profile among the rows a listing returned
ListsPair(listed, candidate_id, job_id) ==
    \E i \in 1..Len(listed) :
        /\ listed[i].candidate_id = candidate_id
        /\ listed[i].job_posting_id = job_id

\* C28: whatever operations came before, a call of match_candidate_to_job
\* that asked for a profile and returned leaves its pair with a profile that
\* is not archived: get_profiles_by_candidate lists a profile of the pair
\* for the candidate and get_profiles_by_job lists one for the job, also
\* when delete_profile had archived the profile the pair had.
C28_MatchLeavesListedProfile ==
    [][(inflight[1].pc = "looked" /\ inflight'[1].pc = "done")
          => /\ ListsPair(get_profiles_by_candidate(profiles', inflight[1].candidate_id),
                          inflight[1].candidate_id, inflight[1].job_id)
             /\ ListsPair(get_profiles_by_job(profiles', inflight[1].job_id),
                          inflight[1].candidate_id, inflight[1].job_id)
      ]_vars

\* the ids of the candidates delete_candidate has marked deleted
DeletedCandidates(candidate_rows) ==
    {candidate_rows[i].id : i \in {k \in 1..Len(candidate_rows) :
                                      candidate_rows[k].status = "deleted"}}

\* C29: once delete_candidate has marked a candidate deleted, a matching
\* operation that starts later gives nothing for that candidate:
\* match_candidate_to_job and match_candidate_to_all_jobs end as for a
\* candidate that is not found, and no list match_all_candidates_to_job
\* returns holds the candidate.
C29_DeletedCandidateNotMatched ==
    [][/\ (op' = "start_match" /\ calls' # calls
              /\ inflight'[1].candidate_id \in DeletedCandidates(candidates))
          => (inflight'[1].pc = "done" /\ inflight'[1].outcome = "not_found")
       /\ (op' = "match_candidate_to_all_jobs" /\ calls' # calls
              /\ ret'.candidate_id \in DeletedCandidates(candidates))
          => ret'.call.outcome = "not_found"
       /\ (op' = "match_all_candidates_to_job" /\ calls' # calls)
          => \A i \in 1..Len(ret'.call.list) :
                ret'.call.list[i].id \notin DeletedCandidates(candidates)
      ]_vars

====
